---- MODULE Spec2Model ----
(***************************************************************************)
(* Verification model of video-encoding-wrapper: the scene-parallel        *)
(* encoding engine (src/src/encoder.rs) and the QualityRange bisection     *)
(* state (src/src/config.rs).                                              *)
(*                                                                         *)
(* Three specifications share this module:                                 *)
(*   Spec        Encoder::encode: worker threads, the three ArrayQueues,   *)
(*               the aggregator loop on the main thread, join, sort and    *)
(*               merge_scenes.                                             *)
(*   SpecRange   QualityRange: new / current / lower / higher.             *)
(*   SpecSearch  Encoder::encode_scene, encode_scene_single and            *)
(*               merge_scenes for one scene over successive runs of the    *)
(*               driver on one output directory.                           *)
(***************************************************************************)
EXTENDS Integers, Sequences, FiniteSets, TLC

(***************************************************************************)
(* Bounds of the model.                                                    *)
(***************************************************************************)
MaxScenes == 2
MaxWorkers == 2

VARIABLES
    workers,          \* config.workers
    scenes,           \* Encoder.scenes, sorted by Reverse(length) in Encoder::new
    scene_queue,      \* ArrayQueue<Scene>
    result_queue,     \* ArrayQueue<ClipMetrics>
    quality_queue,    \* ArrayQueue<f64>
    active_workers,   \* Encoder.active_workers (AtomicUsize)
    thread,           \* per spawned worker thread: position, scene in hand, quality
    apc,              \* position of the main thread inside encode()
    clips,            \* Vec<ClipMetrics> collected by the aggregator
    qualities,        \* EncodeStatistics.qualities
    scene_lengths,    \* EncodeStatistics.scene_lengths
    output_exists,    \* the final muxed output file exists on disk
    muxer_args,       \* the file arguments of each mkvmerge invocation
    encode_result,    \* what encode() returned: "running", "ok" or "err"
    pops,             \* history: for each scene index, how many times it was popped
    arrival,          \* history: the clips in the order the aggregator received them
    qr,               \* a QualityRange: minimum, maximum, divisor, bitrate
    qr_pc,            \* position in the loop `while let Some(q) = range.current()`
    qr_calls,         \* history: how many calls of current() returned a value
    qr_initial,       \* history: the QualityRange as constructed
    qr_before,        \* history: the QualityRange before the last lower() / higher()
    config,           \* the Config of a run: encoder, mode, metric, rule, quality
    clip_file,        \* disk: for each clip name of one scene, the final clip file
    clip_tmp,         \* disk: for each clip name, the ".tmp" file the encoder writes
    stats_file,       \* disk: for each clip name, whether the ".stats.log" file exists
    sidecar,          \* disk: for each clip name, the ".metrics.json" cache
    merged_file,      \* disk: the final muxed output
    merged_tmp,       \* disk: the ".tmp.mkv" file mkvmerge writes
    es,               \* the frame of encode_scene
    ess,              \* the frame of encode_scene_single
    run,              \* the run of the program on the output directory, and its history
    metric_values,    \* the per-frame samples of a probe
    use_mean,         \* Config.use_mean
    percentile,       \* Config.percentile, in halves: 0, 1 (the median) or 2
    metric_value,     \* the scalar the samples were reduced to
    reduce_pc,        \* "reduce" before the reduction, "done" after it
    cli,              \* the parsed command line: encoder and mode
    source,           \* the source video: decoded frames, packet count, scene
                      \* changes, and whether the packet probe can read it
    main_pc,          \* position of the process inside main(), run() and scenes::split
    caller,           \* the caller get_metadata returns to: "run" or "get"
    dirs,             \* disk: the directories created under the output directory
    metadata_json,    \* disk: config/metadata.json
    scenes_json,      \* disk: config/scenes.json
    memo,             \* the #[cached] result of get_metadata, per process
    scene_list,          \* the Vec<Scene> returned by scenes::get
    source_final,     \* disk: source/scene-NNNNN.mkv, by scene index
    source_tmp,       \* disk: source/scene-NNNNN.tmp.mkv, by scene index
    ffmpeg,           \* the scene splitting encoder subprocess of each scene index
    split,            \* the loop of scenes::split: scene position, frames decoded
    split_hist,       \* history: run number, subprocesses, cache reads, renames
    record,           \* the ClipMetrics in memory: its six optional fields
    metrics_pc,       \* position of the process inside a getter of the record
    json_file,        \* disk: the ".metrics.json" sidecar of the clip
    json_tmp,         \* disk: the "..tmp.json" file update_cache writes
    log_file,         \* disk: the ".ffmpeg.metrics.json" log of libvmaf
    metrics_hist,     \* history: the record that last renamed onto the sidecar
    ss_threads,       \* the `threads` argument of ssimulacra2::compare_videos
    clip_pair,        \* the two clips: frames of each, and the frames that cannot be scored
    decoders,         \* Mutex<(current_frame, (reference, distorted))> and its holder
    scorer,           \* per scoring thread: position, and the locals of calc_score
    result_rx,        \* the mpsc channel: (frame index, score) messages in flight
    results,          \* the BTreeMap of the parent thread
    ss_main,          \* parent thread: position, and the Vec<f64> compare_videos returns
    score_hist        \* history: the frame pairs read, in the order they were read

encodeVars == <<workers, scenes, scene_queue, result_queue, quality_queue,
                active_workers, thread, apc, clips, qualities, scene_lengths,
                output_exists, muxer_args, encode_result, pops, arrival>>

rangeVars == <<qr, qr_pc, qr_calls, qr_initial, qr_before>>

searchVars == <<config, clip_file, clip_tmp, stats_file, sidecar, merged_file, merged_tmp,
                es, ess, run>>

reduceVars == <<metric_values, use_mean, percentile, metric_value, reduce_pc>>
splitVars == <<cli, source, main_pc, caller, dirs, metadata_json, scenes_json, memo,
               scene_list, source_final, source_tmp, ffmpeg, split, split_hist>>

metricsVars == <<record, metrics_pc, json_file, json_tmp, log_file, metrics_hist>>
scoreVars == <<ss_threads, clip_pair, decoders, scorer, result_rx, results, ss_main, score_hist>>

\* what the actions of one part of the program leave alone
notEncode == <<rangeVars, searchVars, reduceVars, splitVars, metricsVars, scoreVars>>
notRange == <<encodeVars, searchVars, reduceVars, splitVars, metricsVars, scoreVars>>
notSearch == <<encodeVars, rangeVars, reduceVars, splitVars, metricsVars, scoreVars>>
notReduce == <<encodeVars, rangeVars, searchVars, splitVars, metricsVars, scoreVars>>
notSplit == <<encodeVars, rangeVars, searchVars, reduceVars, metricsVars, scoreVars>>
notMetrics == <<encodeVars, rangeVars, searchVars, reduceVars, splitVars, scoreVars>>
notScore == <<encodeVars, rangeVars, searchVars, reduceVars, splitVars, metricsVars>>

\* the variables of a part of the program that a specification does not run
RangeIdle ==
    /\ qr = [minimum |-> 0, maximum |-> 0, divisor |-> 1, bitrate |-> FALSE]
    /\ qr_pc = "idle"
    /\ qr_calls = 0
    /\ qr_initial = qr
    /\ qr_before = qr

SearchIdle ==
    /\ config = [encoder |-> "", mode |-> "", metric |-> "", rule |-> "", quality |-> 0]
    /\ clip_file = <<>>
    /\ clip_tmp = <<>>
    /\ stats_file = <<>>
    /\ sidecar = <<>>
    /\ merged_file = 0
    /\ merged_tmp = 0
    /\ es = [pc |-> "idle"]
    /\ ess = [pc |-> "idle"]
    /\ run = [pc |-> "idle"]

ReduceIdle ==
    /\ metric_values = <<>>
    /\ use_mean = FALSE
    /\ percentile = 0
    /\ metric_value = [num |-> 0, den |-> 0]
    /\ reduce_pc = "idle"

SplitIdle ==
    /\ cli = [encoder |-> "", mode |-> ""]
    /\ source = [frames |-> 0, frame_count |-> 0, scene_changes |-> <<>>,
                 readable |-> FALSE]
    /\ main_pc = "idle"
    /\ caller = "none"
    /\ dirs = {}
    /\ metadata_json = "absent"
    /\ scenes_json = "absent"
    /\ memo = FALSE
    /\ scene_list = <<>>
    /\ source_final = <<>>
    /\ source_tmp = <<>>
    /\ ffmpeg = <<>>
    /\ split = [i |-> 0, decoded |-> 0]
    /\ split_hist = [run |-> 0]

MetricsIdle ==
    /\ record = <<>>
    /\ metrics_pc = "idle"
    /\ json_file = <<>>
    /\ json_tmp = <<>>
    /\ log_file = FALSE
    /\ metrics_hist = <<>>

ScoreIdle ==
    /\ ss_threads = 0
    /\ clip_pair = <<>>
    /\ decoders = <<>>
    /\ scorer = <<>>
    /\ result_rx = <<>>
    /\ results = <<>>
    /\ ss_main = [pc |-> "idle"]
    /\ score_hist = <<>>

EncodeIdle ==
    /\ workers = 0
    /\ scenes = <<>>
    /\ scene_queue = <<>>
    /\ result_queue = <<>>
    /\ quality_queue = <<>>
    /\ active_workers = 0
    /\ thread = <<>>
    /\ apc = "idle"
    /\ clips = <<>>
    /\ qualities = <<>>
    /\ scene_lengths = <<>>
    /\ output_exists = FALSE
    /\ muxer_args = <<>>
    /\ encode_result = "idle"
    /\ pops = <<>>
    /\ arrival = <<>>


RECURSIVE Digits(_)
\* the decimal digits of n, most significant first (Display of an unsigned integer)
Digits(n) == IF n < 10 THEN <<n>> ELSE Append(Digits(n \div 10), n % 10)

\* format!("{n:0w$}"): at least w digits, zero-padded on the left
ZeroPad(n, w) ==
    LET d == Digits(n)
    IN  IF Len(d) >= w THEN d ELSE [i \in 1..(w - Len(d)) |-> 0] \o d

\* byte-wise comparison of two strings given as sequences of digit values
LexLess(a, b) ==
    \/ \E i \in 1..Len(a) :
          /\ i <= Len(b)
          /\ a[i] < b[i]
          /\ \A j \in 1..(i - 1) : a[j] = b[j]
    \/ /\ Len(a) < Len(b)
       /\ \A j \in 1..Len(a) : a[j] = b[j]

(***************************************************************************)
(* Program constants of the path formats.                                  *)
(***************************************************************************)
SceneDigits == 5
QualityDigits == 3

\* the directory component "scene-{index:05}" of a clip path, as its digits
SceneDirectory(index) == ZeroPad(index, SceneDigits)

\* the file name component "{mode}-{qp:03}.{ext}" of a clip path, as its digits
BaseOutputFilename(q) == ZeroPad(q, QualityDigits)

\* Ord of PathBuf on two clip paths below one encode_directory: component-wise
PathLess(a, b) ==
    \/ LexLess(SceneDirectory(a.scene), SceneDirectory(b.scene))
    \/ /\ SceneDirectory(a.scene) = SceneDirectory(b.scene)
       /\ LexLess(BaseOutputFilename(a.quality), BaseOutputFilename(b.quality))

RECURSIVE InsertByPath(_, _)
\* x placed behind every element of the sorted sequence s that is not greater
\* (the place a stable sort gives to an element that came later)
InsertByPath(s, x) ==
    IF s = <<>> THEN <<x>>
    ELSE IF PathLess(x, s[Len(s)])
         THEN Append(InsertByPath(SubSeq(s, 1, Len(s) - 1), x), s[Len(s)])
         ELSE Append(s, x)

RECURSIVE SortByPath(_)
SortByPath_Unsorted(cs) == cs
\* clips.sort_by(|a, b| a.path().cmp(b.path()))
SortByPath(cs) ==
    IF cs = <<>> THEN <<>>
    ELSE InsertByPath(SortByPath(SubSeq(cs, 1, Len(cs) - 1)), cs[Len(cs)])

\* Scene::length
length(scene) == scene.end_frame - scene.start_frame + 1

RECURSIVE InsertByLength(_, _)
\* x placed behind every element of s that is at least as long
InsertByLength(s, x) ==
    IF s = <<>> THEN <<x>>
    ELSE IF length(x) > length(s[Len(s)])
         THEN Append(InsertByLength(SubSeq(s, 1, Len(s) - 1), x), s[Len(s)])
         ELSE Append(s, x)

RECURSIVE SortScenes(_)
SortScenes_Unsorted(catalog) == catalog
\* scenes.sort_by_key(|a| Reverse(a.length())) in Encoder::new (a stable sort)
SortScenes(catalog) ==
    IF catalog = <<>> THEN <<>>
    ELSE InsertByLength(SortScenes(SubSeq(catalog, 1, Len(catalog) - 1)), catalog[Len(catalog)])

RECURSIVE StartFrame(_, _)
StartFrame(lens, i) == IF i = 1 THEN 0 ELSE StartFrame(lens, i - 1) + lens[i - 1]

\* the scene catalog of a source whose scenes have the given lengths
Catalog(lens) ==
    [i \in 1..Len(lens) |->
        [index |-> i - 1,
         start_frame |-> StartFrame(lens, i),
         end_frame |-> StartFrame(lens, i) + lens[i] - 1]]

\* file_args of merge_scenes: the first path bare, the later ones prefixed "+"
FileArgs(files) ==
    [i \in 1..Len(files) |-> [plus |-> (i > 1), path |-> files[i]]]

(***************************************************************************)
(* Encoder::encode                                                         *)
(***************************************************************************)
Threads == 0..(workers - 1)
\* the scene lengths and the chosen quality an encode() run is explored with
SceneLengths == {1, 2}
DefaultQuality == 23
Qualities == {DefaultQuality}
NoScene == -1

is_finished(t) == thread[t].pc \in {"finished_ok", "finished_err"}

Capacity_Short == Len(scenes) - 1
Capacity == Len(scenes)

InitEncode ==
    /\ workers \in 0..MaxWorkers
    /\ \E n \in 1..MaxScenes : \E lens \in [1..n -> SceneLengths] :
          scenes = SortScenes(Catalog(lens))
    /\ scene_queue = scenes
    /\ scene_lengths = [i \in 1..Len(scenes) |-> length(scenes[i])]
    /\ result_queue = <<>>
    /\ quality_queue = <<>>
    /\ active_workers = workers
    /\ thread = [t \in Threads |->
                    [pc |-> "pop", scene |-> NoScene, quality |-> 0, threads |-> 0]]
    /\ apc = "check"
    /\ clips = <<>>
    /\ qualities = <<>>
    /\ output_exists = FALSE
    /\ muxer_args = <<>>
    /\ encode_result = "running"
    /\ pops = [i \in 0..(Len(scenes) - 1) |-> 0]
    /\ arrival = <<>>
    /\ RangeIdle
    /\ SearchIdle
    /\ ReduceIdle
    /\ SplitIdle
    /\ MetricsIdle
    /\ ScoreIdle

\* what scene_queue.pop() leaves in the queue
SceneQueueAfterPop_Keep(queue) == queue
SceneQueueAfterPop(queue) == Tail(queue)

\* while let Some(scene) = &scene_queue.pop() { ... }; on None the worker
\* finishes its bar, decrements active_workers and returns Ok
WorkerPop(t) ==
    /\ thread[t].pc = "pop"
    /\ IF scene_queue # <<>>
       THEN /\ thread' = [thread EXCEPT ![t] =
                   [pc |-> "encode", scene |-> Head(scene_queue).index,
                    quality |-> 0, threads |-> 0]]
            /\ scene_queue' = SceneQueueAfterPop(scene_queue)
            /\ pops' = [pops EXCEPT ![Head(scene_queue).index] = @ + 1]
            /\ UNCHANGED active_workers
       ELSE /\ thread' = [thread EXCEPT ![t].pc = "finished_ok"]
            /\ active_workers' = active_workers - 1
            /\ UNCHANGED <<scene_queue, pops>>
    /\ UNCHANGED <<workers, scenes, result_queue, quality_queue, apc, clips, qualities,
                   scene_lengths, output_exists, muxer_args, encode_result, arrival>>
    /\ UNCHANGED notEncode

\* let threads = self.config.workers / self.active_workers.load(Relaxed)
ThreadCount_All(w, active) == w
ThreadCount(w, active) == w \div active

\* one iteration of the bisection loop of encode_scene reaches the metric
\* probe: threads = workers / active_workers
WorkerProbe(t) ==
    /\ thread[t].pc = "encode"
    /\ IF active_workers = 0
       THEN thread' = [thread EXCEPT ![t].pc = "finished_err"]
       ELSE thread' = [thread EXCEPT ![t].pc = "metric",
                                     ![t].threads = ThreadCount(workers, active_workers)]
    /\ UNCHANGED <<workers, scenes, scene_queue, result_queue, quality_queue, active_workers,
                   apc, clips, qualities, scene_lengths, output_exists, muxer_args,
                   encode_result, pops, arrival>>
    /\ UNCHANGED notEncode

\* the metric probe returns: the loop goes on, or its error leaves the worker
WorkerProbeDone(t) ==
    /\ thread[t].pc = "metric"
    /\ \E ok \in BOOLEAN :
          thread' = [thread EXCEPT ![t].pc = IF ok THEN "encode" ELSE "finished_err",
                                   ![t].threads = 0]
    /\ UNCHANGED <<workers, scenes, scene_queue, result_queue, quality_queue, active_workers,
                   apc, clips, qualities, scene_lengths, output_exists, muxer_args,
                   encode_result, pops, arrival>>
    /\ UNCHANGED notEncode

\* encode_scene and ClipMetrics::new return Ok((path, quality)) and the worker
\* pushes the metrics: result_queue.push(metrics). An error of either, or a
\* full queue, returns from the worker before active_workers is decremented
WorkerPushResult(t) ==
    /\ thread[t].pc = "encode"
    /\ \/ \E q \in Qualities :
             IF Len(result_queue) < Capacity
             THEN /\ result_queue' = Append(result_queue, [scene |-> thread[t].scene, quality |-> q])
                  /\ thread' = [thread EXCEPT ![t].pc = "push_quality", ![t].quality = q]
             ELSE /\ thread' = [thread EXCEPT ![t].pc = "finished_err"]
                  /\ UNCHANGED result_queue
       \/ /\ thread' = [thread EXCEPT ![t].pc = "finished_err"]
          /\ UNCHANGED result_queue
    /\ UNCHANGED <<workers, scenes, scene_queue, quality_queue, active_workers, apc, clips,
                   qualities, scene_lengths, output_exists, muxer_args, encode_result, pops, arrival>>
    /\ UNCHANGED notEncode

\* quality_queue.push(quality), then the next iteration of the worker loop
WorkerPushQuality(t) ==
    /\ thread[t].pc = "push_quality"
    /\ IF Len(quality_queue) < Capacity
       THEN /\ quality_queue' = Append(quality_queue, thread[t].quality)
            /\ thread' = [thread EXCEPT ![t].pc = "pop"]
       ELSE /\ thread' = [thread EXCEPT ![t].pc = "finished_err"]
            /\ UNCHANGED quality_queue
    /\ UNCHANGED <<workers, scenes, scene_queue, result_queue, active_workers, apc, clips,
                   qualities, scene_lengths, output_exists, muxer_args, encode_result, pops, arrival>>
    /\ UNCHANGED notEncode

\* the condition of the aggregator loop:
\*   threads.iter().any(|thread| !thread.is_finished()) || !result_queue.is_empty()
\* (is_finished never reverts, so reading the threads one by one and then the
\* queue sees what one atomic read at the last of these reads would see)
LoopCondition_Always == TRUE
LoopCondition == (\E t \in Threads : ~is_finished(t)) \/ result_queue # <<>>

AggCheck ==
    /\ apc = "check"
    /\ apc' = IF LoopCondition THEN "results" ELSE "join"
    /\ UNCHANGED <<workers, scenes, scene_queue, result_queue, quality_queue, active_workers,
                   thread, clips, qualities, scene_lengths, output_exists, muxer_args,
                   encode_result, pops, arrival>>
    /\ UNCHANGED notEncode

\* while let Some(mut clip) = result_queue.pop() { ...; clips.push(clip); }
\* clip.sizes(), clip.duration() and clip.frames() read the clip file and may
\* fail: `?` then leaves the scope closure with the error
AggPopResult ==
    /\ apc = "results"
    /\ IF result_queue # <<>>
       THEN /\ result_queue' = Tail(result_queue)
            /\ \/ /\ clips' = Append(clips, Head(result_queue))
                  /\ arrival' = Append(arrival, Head(result_queue))
                  /\ apc' = "results"
               \/ /\ apc' = "abort"
                  /\ UNCHANGED <<clips, arrival>>
       ELSE /\ apc' = "quality"
            /\ UNCHANGED <<result_queue, clips, arrival>>
    /\ UNCHANGED <<workers, scenes, scene_queue, quality_queue, active_workers, thread,
                   qualities, scene_lengths, output_exists, muxer_args, encode_result, pops>>
    /\ UNCHANGED notEncode

\* while let Some(quality) = quality_queue.pop() { statistics.qualities.push(quality); }
AggPopQuality ==
    /\ apc = "quality"
    /\ IF quality_queue # <<>>
       THEN /\ quality_queue' = Tail(quality_queue)
            /\ qualities' = Append(qualities, Head(quality_queue))
            /\ apc' = "quality"
       ELSE /\ apc' = "check"
            /\ UNCHANGED <<quality_queue, qualities>>
    /\ UNCHANGED <<workers, scenes, scene_queue, result_queue, active_workers, thread, clips,
                   scene_lengths, output_exists, muxer_args, encode_result, pops, arrival>>
    /\ UNCHANGED notEncode

\* what thread.join() returns for a worker: Err if its closure returned an error
WorkerFailed_Never(t) == FALSE
WorkerFailed(t) == thread[t].pc = "finished_err"

\* for thread in threads { thread.join() ... }: the first error is returned;
\* then the result queue must be empty
AggJoin ==
    /\ apc = "join"
    /\ \A t \in Threads : is_finished(t)
    /\ IF (\E t \in Threads : WorkerFailed(t)) \/ result_queue # <<>>
       THEN apc' = "done" /\ encode_result' = "err"
       ELSE apc' = "merge" /\ UNCHANGED encode_result
    /\ UNCHANGED <<workers, scenes, scene_queue, result_queue, quality_queue, active_workers,
                   thread, clips, qualities, scene_lengths, output_exists, muxer_args, pops, arrival>>
    /\ UNCHANGED notEncode

\* std::thread::scope returns once every thread spawned in it has finished
ScopeJoined_NoWait(ts) == TRUE
ScopeJoined(ts) == \A t \in ts : is_finished(t)

\* an error inside the scope closure: thread::scope joins every worker before
\* it returns, and encode() returns the error
AggAbort ==
    /\ apc = "abort"
    /\ ScopeJoined(Threads)
    /\ apc' = "done"
    /\ encode_result' = "err"
    /\ UNCHANGED <<workers, scenes, scene_queue, result_queue, quality_queue, active_workers,
                   thread, clips, qualities, scene_lengths, output_exists, muxer_args, pops, arrival>>
    /\ UNCHANGED notEncode

\* clips.sort_by(path); merge_scenes(&clips): mkvmerge runs only if the final
\* output (left by an earlier run or not) does not exist at entry, and its
\* exit status decides the result
SortAndMerge ==
    /\ apc = "merge"
    /\ clips' = SortByPath(clips)
    /\ apc' = "done"
    /\ \E exists_at_entry \in BOOLEAN :
          IF exists_at_entry
          THEN /\ encode_result' = "ok"
               /\ output_exists' = TRUE
               /\ UNCHANGED muxer_args
          ELSE /\ muxer_args' = Append(muxer_args, FileArgs(clips'))
               /\ \/ output_exists' = TRUE /\ encode_result' = "ok"
                  \/ output_exists' = FALSE /\ encode_result' = "err"
    /\ UNCHANGED <<workers, scenes, scene_queue, result_queue, quality_queue, active_workers,
                   thread, qualities, scene_lengths, pops, arrival>>
    /\ UNCHANGED notEncode


(***************************************************************************)
(* QualityRange (config.rs)                                                *)
(***************************************************************************)
MaxEndpoint == 3
MaxDivisor == 2

\* i64 division: the quotient truncated toward zero
TruncDiv(a, b) ==
    IF (a >= 0) = (b > 0)
    THEN (IF a >= 0 THEN a ELSE -a) \div (IF b > 0 THEN b ELSE -b)
    ELSE -((IF a >= 0 THEN a ELSE -a) \div (IF b > 0 THEN b ELSE -b))

\* QualityRange::new
QualityRangeNew_Unscaled(minimum, maximum, divisor, bitrate) ==
    [minimum |-> minimum, maximum |-> maximum, divisor |-> divisor, bitrate |-> bitrate]
QualityRangeNew(minimum, maximum, divisor, bitrate) ==
    IF bitrate
    THEN [minimum |-> TruncDiv(minimum, divisor), maximum |-> TruncDiv(maximum, divisor),
          divisor |-> divisor, bitrate |-> bitrate]
    ELSE [minimum |-> minimum * divisor, maximum |-> maximum * divisor,
          divisor |-> divisor, bitrate |-> bitrate]

\* QualityRange::midpoint
midpoint(r) == TruncDiv(r.minimum + r.maximum, 2)

\* a value in user units, kept exact as numerator over denominator:
\* stored * divisor on the bitrate axis, stored / divisor on the others
UserUnits(r, stored) ==
    IF r.bitrate THEN [num |-> stored * r.divisor, den |-> 1]
    ELSE [num |-> stored, den |-> r.divisor]

\* order and equality of two values in user units
ValueLess(a, b) == a.num * b.den < b.num * a.den
ValueEq(a, b) == a.num * b.den = b.num * a.den

None == [num |-> 0, den |-> 0]

\* QualityRange::current
current(r) == IF r.minimum > r.maximum THEN None ELSE UserUnits(r, midpoint(r))

\* QualityRange::lower
lower_KeepMidpoint(r) == [r EXCEPT !.maximum = midpoint(r)]
lower(r) == [r EXCEPT !.maximum = midpoint(r) - 1]

\* QualityRange::higher
higher_OneStep(r) == [r EXCEPT !.minimum = r.minimum + 1]
higher(r) == [r EXCEPT !.minimum = midpoint(r) + 1]

\* QualityRange::integer
integer(r) == r.bitrate \/ r.divisor = 1

\* QualityRange::minimum, QualityRange::maximum
minimum(r) == UserUnits(r, r.minimum)
maximum(r) == UserUnits(r, r.maximum)

EncoderNames == {"aomenc", "rav1e", "svt-av1", "vpxenc", "x264", "x265"}
ModeNames == {"qp", "crf", "bitrate"}

\* Encoder::quality_range
quality_range(encoder, mode) ==
    IF mode = "bitrate" THEN QualityRangeNew(100, 30000, 100, TRUE)
    ELSE IF mode = "crf" THEN
        CASE encoder \in {"aomenc", "vpxenc"} -> QualityRangeNew(0, 63, 1, FALSE)
          [] encoder = "rav1e" -> QualityRangeNew(1, 255, 1, FALSE)
          [] encoder = "svt-av1" -> QualityRangeNew(1, 63, 1, FALSE)
          [] encoder = "x264" -> QualityRangeNew(-10, 51, 4, FALSE)
          [] encoder = "x265" -> QualityRangeNew(0, 51, 4, FALSE)
    ELSE
        CASE encoder \in {"aomenc", "vpxenc"} -> QualityRangeNew(0, 63, 1, FALSE)
          [] encoder = "rav1e" -> QualityRangeNew(1, 255, 1, FALSE)
          [] encoder = "svt-av1" -> QualityRangeNew(1, 63, 1, FALSE)
          [] encoder = "x264" -> QualityRangeNew(1, 81, 1, FALSE)
          [] encoder = "x265" -> QualityRangeNew(0, 51, 1, FALSE)

\* the ranges the program builds, and ranges built from small arguments
InitRange ==
    /\ \/ \E encoder \in EncoderNames, mode \in ModeNames : qr = quality_range(encoder, mode)
       \/ \E lo \in (-MaxEndpoint)..MaxEndpoint, hi \in (-MaxEndpoint)..MaxEndpoint,
             divisor \in 1..MaxDivisor, bitrate \in BOOLEAN :
             qr = QualityRangeNew(lo, hi, divisor, bitrate)
    /\ qr_pc = "current"
    /\ qr_calls = 0
    /\ qr_initial = qr
    /\ qr_before = qr
    /\ EncodeIdle
    /\ SearchIdle
    /\ ReduceIdle
    /\ SplitIdle
    /\ MetricsIdle
    /\ ScoreIdle

\* while let Some(current_quality) = quality_range.current()
RangeCurrent ==
    /\ qr_pc = "current"
    /\ IF current(qr) = None
       THEN qr_pc' = "exhausted" /\ UNCHANGED qr_calls
       ELSE qr_pc' = "probe" /\ qr_calls' = qr_calls + 1
    /\ UNCHANGED <<qr, qr_initial, qr_before>>
    /\ UNCHANGED notRange

\* quality_range.lower() at the end of an iteration
RangeLower ==
    /\ qr_pc = "probe"
    /\ qr' = lower(qr)
    /\ qr_before' = qr
    /\ qr_pc' = "current"
    /\ UNCHANGED <<qr_calls, qr_initial>>
    /\ UNCHANGED notRange

\* quality_range.higher() at the end of an iteration
RangeHigher ==
    /\ qr_pc = "probe"
    /\ qr' = higher(qr)
    /\ qr_before' = qr
    /\ qr_pc' = "current"
    /\ UNCHANGED <<qr_calls, qr_initial>>
    /\ UNCHANGED notRange

NextRange ==
    \/ RangeCurrent
    \/ RangeLower
    \/ RangeHigher

NextEncode ==
    \/ \E t \in Threads : WorkerPop(t)
    \/ \E t \in Threads : WorkerProbe(t)
    \/ \E t \in Threads : WorkerProbeDone(t)
    \/ \E t \in Threads : WorkerPushResult(t)
    \/ \E t \in Threads : WorkerPushQuality(t)
    \/ AggCheck
    \/ AggPopResult
    \/ AggPopQuality
    \/ AggJoin
    \/ AggAbort
    \/ SortAndMerge


(***************************************************************************)
(* encode_scene, encode_scene_single and merge_scenes for one scene, over  *)
(* successive runs of the program on one output directory (encoder.rs)     *)
(***************************************************************************)
MaxGrid == 3
MaxMetric == 2
MaxRuns == 2

\* the configured target of a metric-guided search, in the metric's units
Target == 1
\* the values the reduced metric of a clip may take
MetricValues == 0..MaxMetric

BitrateDigits == 6
\* f64::MIN, below every score a clip can have
F64Min == -1000000
\* an Option field of the metrics cache that is None
NoValue == -1

\* the encoder and mode pairs a run is explored with: the bitrate axis, a
\* two-pass encoder with integer qualities from 0, and a single-pass encoder
\* with fractional CRF values from -10 and integer QP values from 1
SearchAxes == {<<"aomenc", "bitrate">>, <<"aomenc", "crf">>, <<"x264", "crf">>, <<"x264", "qp">>}
RuleNames == {"minimum", "maximum", "target"}
MetricNames == {"direct", "vmaf", "bitrate"}

Abs(x) == IF x < 0 THEN -x ELSE x

\* Encoder::passes
passes(cfg) ==
    IF cfg.mode = "bitrate" THEN 2
    ELSE IF cfg.encoder \in {"aomenc", "vpxenc"} THEN 2 ELSE 1

\* the range encode_scene searches: Encoder::quality_range, of which the
\* first MaxGrid stored values are explored
BoundedRange(cfg) ==
    LET r == quality_range(cfg.encoder, cfg.mode)
    IN  [r EXCEPT !.maximum = IF @ > r.minimum + MaxGrid - 1
                              THEN r.minimum + MaxGrid - 1 ELSE @]

\* the qualities of the range, in user units
Grid(r) == {UserUnits(r, stored) : stored \in r.minimum..r.maximum}

\* characters of a file name, as their distance from the character '0'
Minus == -3
Point == -2

\* format!("{qp:05.2}"): two decimals, sign first, zero-padded to five characters
FormatFixed(qp) ==
    LET hundredths == (2 * 100 * Abs(qp.num) + qp.den) \div (2 * qp.den)
        body == Digits(hundredths \div 100) \o <<Point>> \o ZeroPad(hundredths % 100, 2)
        sign == IF qp.num < 0 THEN <<Minus>> ELSE <<>>
        fill == 5 - Len(sign) - Len(body)
    IN  sign \o (IF fill > 0 THEN [i \in 1..fill |-> 0] ELSE <<>>) \o body

\* base_output_filename of encode_scene_single, without the mode prefix
QualityName(cfg, qp) ==
    IF integer(quality_range(cfg.encoder, cfg.mode))
    THEN ZeroPad(qp.num \div qp.den,
                 IF cfg.mode = "bitrate" THEN BitrateDigits ELSE QualityDigits)
    ELSE FormatFixed(qp)

\* the clip names of one scene directory under a configuration
Names(cfg) == {QualityName(cfg, qp) : qp \in Grid(BoundedRange(cfg))}

\* a path at which no file exists
NoFile == [pass |-> 0, run |-> 0, serial |-> 0]
\* a metrics cache that does not exist or has no field set
NoSidecar == [value |-> NoValue, sizes |-> FALSE]

\* the seed of best_quality
SeedQuality_Minimum(cfg, r) == minimum(r)
SeedQuality_Swapped(cfg, r) ==
    IF cfg.mode = "bitrate"
    THEN (IF cfg.rule = "maximum" THEN maximum(r) ELSE minimum(r))
    ELSE (IF cfg.rule = "maximum" THEN minimum(r) ELSE maximum(r))
SeedQuality(cfg, r) ==
    IF cfg.mode = "bitrate"
    THEN (IF cfg.rule = "maximum" THEN minimum(r) ELSE maximum(r))
    ELSE (IF cfg.rule = "maximum" THEN maximum(r) ELSE minimum(r))

\* comparisons of a metric value with config.quality
AtMost(v, quality) == v * quality.den <= quality.num
AtLeast(v, quality) == v * quality.den >= quality.num
\* (config.quality - score).abs(), in units of 1 / quality.den
Delta(quality, score) == Abs(quality.num - score * quality.den)

\* what a probe does to the frame f of encode_scene (quality_range,
\* best_quality, best_score, current_quality) when metric_value is v
Adopted(f, v) == [f EXCEPT !.best_quality = f.current_quality, !.best_score = v]
AdoptIfHigher(f, v) == IF ValueLess(f.best_quality, f.current_quality) THEN Adopted(f, v) ELSE f
AdoptIfLower(f, v) == IF ValueLess(f.current_quality, f.best_quality) THEN Adopted(f, v) ELSE f
Higher(f) == [f EXCEPT !.quality_range = higher(@)]
Lower(f) == [f EXCEPT !.quality_range = lower(@)]

\* QualityRule::Maximum, Mode::Bitrate
MaximumBitrate_AlwaysAdopt(cfg, f, v) ==
    IF AtMost(v, cfg.quality) THEN Higher(AdoptIfHigher(f, v)) ELSE Lower(AdoptIfHigher(f, v))
MaximumBitrate(cfg, f, v) ==
    IF AtMost(v, cfg.quality) THEN Higher(AdoptIfHigher(f, v)) ELSE Lower(f)

\* QualityRule::Maximum, Mode::CRF | Mode::QP
MaximumQuantizer_AlwaysAdopt(cfg, f, v) ==
    IF AtMost(v, cfg.quality) THEN Lower(AdoptIfLower(f, v)) ELSE Higher(AdoptIfLower(f, v))
MaximumQuantizer(cfg, f, v) ==
    IF AtMost(v, cfg.quality) THEN Lower(AdoptIfLower(f, v)) ELSE Higher(f)

\* QualityRule::Minimum, Mode::Bitrate
MinimumBitrate(cfg, f, v) ==
    IF AtLeast(v, cfg.quality) THEN Lower(AdoptIfLower(f, v)) ELSE Higher(f)

\* QualityRule::Minimum, Mode::CRF | Mode::QP
MinimumQuantizer_AlwaysAdopt(cfg, f, v) ==
    IF AtLeast(v, cfg.quality) THEN Higher(AdoptIfHigher(f, v)) ELSE Lower(AdoptIfHigher(f, v))
MinimumQuantizer_Reversed(cfg, f, v) ==
    IF AtLeast(v, cfg.quality) THEN Lower(AdoptIfHigher(f, v)) ELSE Higher(f)
MinimumQuantizer(cfg, f, v) ==
    IF AtLeast(v, cfg.quality) THEN Higher(AdoptIfHigher(f, v)) ELSE Lower(f)

\* new_delta < current_delta
Closer_OrEqual(cfg, f, v) == Delta(cfg.quality, v) <= Delta(cfg.quality, f.best_score)
Closer(cfg, f, v) == Delta(cfg.quality, v) < Delta(cfg.quality, f.best_score)

\* QualityRule::Target
TargetRule(cfg, f, v) ==
    LET g == IF Closer(cfg, f, v) THEN Adopted(f, v) ELSE f
    IN  IF \/ cfg.mode = "bitrate" /\ AtMost(v, cfg.quality)
           \/ cfg.mode # "bitrate" /\ AtLeast(v, cfg.quality)
        THEN Higher(g) ELSE Lower(g)

\* match self.config.rule
RuleStep(cfg, f, v) ==
    IF cfg.rule = "maximum"
    THEN (IF cfg.mode = "bitrate" THEN MaximumBitrate(cfg, f, v)
                                  ELSE MaximumQuantizer(cfg, f, v))
    ELSE IF cfg.rule = "minimum"
    THEN (IF cfg.mode = "bitrate" THEN MinimumBitrate(cfg, f, v)
                                  ELSE MinimumQuantizer(cfg, f, v))
    ELSE TargetRule(cfg, f, v)

\* the configurations a run is explored with: with metric direct the rule is not read and config.quality is the quality
\* itself, otherwise config.quality is the target of the search
Configs ==
    UNION {{[encoder |-> a[1], mode |-> a[2], metric |-> k, rule |-> r,
             quality |-> [num |-> Target, den |-> 1]] :
               k \in MetricNames \ {"direct"}, r \in RuleNames}
           \cup
           {[encoder |-> a[1], mode |-> a[2], metric |-> "direct", rule |-> "minimum",
             quality |-> q] : q \in Grid(BoundedRange([encoder |-> a[1], mode |-> a[2]]))} :
           a \in SearchAxes}

\* encode_scene before its first statement
EsStartFrame ==
    [pc |-> "start", quality_range |-> BoundedRange(config), best_quality |-> None,
     best_score |-> F64Min, current_quality |-> None, quality |-> None]

\* no call of encode_scene_single in progress
EssNoFrame ==
    [pc |-> "idle", passes |-> 0, qp |-> None, success |-> FALSE,
     existed |-> FALSE, before |-> NoFile, stale |-> NoFile, spawns |-> 0]

\* a call encode_scene_single(scene, .., passes, qp); existed, before, stale
\* and spawns are history: the final file and the ".tmp" file at entry, and
\* the subprocesses spawned
EssCall(n, qp) ==
    [pc |-> "entry", passes |-> n, qp |-> qp, success |-> FALSE,
     existed |-> (clip_file[QualityName(config, qp)] # NoFile),
     before |-> clip_file[QualityName(config, qp)],
     stale |-> clip_tmp[QualityName(config, qp)], spawns |-> 0]

InitSearch ==
    /\ config \in Configs
    /\ clip_file = [n \in Names(config) |-> NoFile]
    /\ clip_tmp = [n \in Names(config) |-> NoFile]
    /\ stats_file = [n \in Names(config) |-> FALSE]
    /\ sidecar = [n \in Names(config) |-> NoSidecar]
    /\ merged_file = 0
    /\ merged_tmp = 0
    /\ es = EsStartFrame
    /\ ess = EssNoFrame
    /\ run = [pc |-> "encode_scene", number |-> 1, spawned |-> <<>>, muxed |-> 0,
              probed |-> <<>>, after_ok |-> FALSE, deleted |-> FALSE, merged_before |-> 0]
    /\ EncodeIdle
    /\ RangeIdle
    /\ ReduceIdle
    /\ SplitIdle
    /\ MetricsIdle
    /\ ScoreIdle

\* encode_scene up to the loop: the quality is config.quality with metric
\* direct, otherwise the range, the seed and best_score are set up
EsStart ==
    /\ run.pc = "encode_scene"
    /\ es.pc = "start"
    /\ IF config.metric = "direct"
       THEN es' = [es EXCEPT !.quality = config.quality, !.pc = "final"]
       ELSE es' = [es EXCEPT !.quality_range = BoundedRange(config),
                             !.best_quality = SeedQuality(config, BoundedRange(config)),
                             !.best_score = F64Min,
                             !.pc = "loop"]
    /\ UNCHANGED <<config, clip_file, clip_tmp, stats_file, sidecar, merged_file, merged_tmp,
                   ess, run>>
    /\ UNCHANGED notSearch

\* while let Some(current_quality) = quality_range.current(): the probe at
\* current_quality is started, or the loop ends with best_quality
EsLoop ==
    /\ es.pc = "loop"
    /\ IF current(es.quality_range) = None
       THEN /\ es' = [es EXCEPT !.quality = es.best_quality, !.pc = "final"]
            /\ UNCHANGED ess
       ELSE /\ es' = [es EXCEPT !.current_quality = current(es.quality_range),
                                !.pc = "probing"]
            /\ ess' = EssCall(passes(config), current(es.quality_range))
    /\ UNCHANGED <<config, clip_file, clip_tmp, stats_file, sidecar, merged_file, merged_tmp,
                   run>>
    /\ UNCHANGED notSearch

\* the rest of an iteration: ClipMetrics::new loads the metrics cache, a
\* metric not cached is computed from the clip (an error if there is no
\* clip) and cached, and the rule table is applied to the reduced value
EsProbeDone ==
    /\ es.pc = "probing"
    /\ ess.pc = "ok"
    /\ LET name == QualityName(config, es.current_quality)
           Applied(v) ==
               /\ es' = [RuleStep(config, es, v) EXCEPT !.pc = "loop"]
               /\ run' = [run EXCEPT !.probed = Append(@, [q |-> es.current_quality, v |-> v])]
       IN  IF sidecar[name].value # NoValue
           THEN /\ Applied(sidecar[name].value)
                /\ UNCHANGED sidecar
           ELSE IF clip_file[name] = NoFile
           THEN /\ es' = [es EXCEPT !.pc = "err"]
                /\ run' = [run EXCEPT !.pc = "err"]
                /\ UNCHANGED sidecar
           ELSE \E v \in MetricValues :
                   /\ Applied(v)
                   /\ sidecar' = [sidecar EXCEPT ![name] =
                                     [value |-> v,
                                      sizes |-> (@.sizes \/ config.metric = "bitrate")]]
    /\ ess' = EssNoFrame
    /\ UNCHANGED <<config, clip_file, clip_tmp, stats_file, merged_file, merged_tmp>>
    /\ UNCHANGED notSearch

\* the `?` on a failed encode_scene_single: encode_scene and the run fail
EsError ==
    /\ es.pc \in {"probing", "finishing"}
    /\ ess.pc = "err"
    /\ es' = [es EXCEPT !.pc = "err"]
    /\ run' = [run EXCEPT !.pc = "err"]
    /\ ess' = EssNoFrame
    /\ UNCHANGED <<config, clip_file, clip_tmp, stats_file, sidecar, merged_file, merged_tmp>>
    /\ UNCHANGED notSearch

\* the final encode_scene_single call at the chosen quality
EsFinal ==
    /\ es.pc = "final"
    /\ es' = [es EXCEPT !.pc = "finishing"]
    /\ ess' = EssCall(passes(config), es.quality)
    /\ UNCHANGED <<config, clip_file, clip_tmp, stats_file, sidecar, merged_file, merged_tmp,
                   run>>
    /\ UNCHANGED notSearch

\* encode_scene returns Ok((path, quality))
EsReturn ==
    /\ es.pc = "finishing"
    /\ ess.pc = "ok"
    /\ es' = [es EXCEPT !.pc = "returned"]
    /\ run' = [run EXCEPT !.pc = "aggregate"]
    /\ ess' = EssNoFrame
    /\ UNCHANGED <<config, clip_file, clip_tmp, stats_file, sidecar, merged_file, merged_tmp>>
    /\ UNCHANGED notSearch

\* output_filename.exists() at the entry of encode_scene_single
OutputExists_Never(file) == FALSE
OutputExists(file) == file # NoFile

\* std::fs::remove_file(&temporary_output_filename) at the entry of
\* encode_scene_single: what is left under the ".tmp" name
remove_file_Skipped(file) == file
remove_file(file) == NoFile

\* encode_scene_single up to the recursion: a stale ".tmp" is removed; if the
\* final file exists the encode is skipped; otherwise the earlier pass, if
\* any, is encoded first by the recursive call
EssEnter ==
    /\ ess.pc = "entry"
    /\ LET name == QualityName(config, ess.qp)
       IN  /\ clip_tmp' = [clip_tmp EXCEPT ![name] = remove_file(@)]
           /\ IF OutputExists(clip_file[name])
              THEN ess' = [ess EXCEPT !.pc = "cleanup"]
              ELSE IF ess.passes > 1
              THEN ess' = [ess EXCEPT !.passes = @ - 1]
              ELSE ess' = [ess EXCEPT !.pc = "spawn"]
    /\ UNCHANGED <<config, clip_file, stats_file, sidecar, merged_file, merged_tmp, es, run>>
    /\ UNCHANGED notSearch

\* the decoder and the encoder of pass ess.passes are spawned
EssSpawn ==
    /\ ess.pc = "spawn"
    /\ ess' = [ess EXCEPT !.pc = "wait", !.spawns = @ + 1]
    /\ run' = [run EXCEPT !.spawned =
                  Append(@, [name |-> QualityName(config, ess.qp), pass |-> ess.passes])]
    /\ UNCHANGED <<config, clip_file, clip_tmp, stats_file, sidecar, merged_file, merged_tmp, es>>
    /\ UNCHANGED notSearch

\* encoder_pipe.wait(): the encoder has exited with some status, having
\* written its ".tmp" output or not, and the stats file of a multi-pass encode
EssWait ==
    /\ ess.pc = "wait"
    /\ LET name == QualityName(config, ess.qp)
       IN  \E success \in BOOLEAN, wrote \in BOOLEAN :
              /\ ess' = [ess EXCEPT !.pc = "publish", !.success = success]
              /\ clip_tmp' = IF wrote
                             THEN [clip_tmp EXCEPT ![name] =
                                      [pass |-> ess.passes, run |-> run.number,
                                       serial |-> Len(run.spawned)]]
                             ELSE clip_tmp
              /\ stats_file' = IF passes(config) > 1
                               THEN [stats_file EXCEPT ![name] = TRUE]
                               ELSE stats_file
    /\ UNCHANGED <<config, clip_file, sidecar, merged_file, merged_tmp, es, run>>
    /\ UNCHANGED notSearch

\* !result.success() after encoder_pipe.wait()
ExitFailed_Never(call) == FALSE
ExitFailed(call) == ~call.success

\* after wait(): a failed encoder is an error; otherwise the ".tmp" file, if
\* there is one, is renamed to the final name
EssPublish ==
    /\ ess.pc = "publish"
    /\ LET name == QualityName(config, ess.qp)
       IN  IF ExitFailed(ess)
           THEN /\ ess' = [ess EXCEPT !.pc = "err"]
                /\ UNCHANGED <<clip_file, clip_tmp>>
           ELSE /\ ess' = [ess EXCEPT !.pc = "cleanup"]
                /\ IF clip_tmp[name] # NoFile
                   THEN /\ clip_file' = [clip_file EXCEPT ![name] = clip_tmp[name]]
                        /\ clip_tmp' = [clip_tmp EXCEPT ![name] = NoFile]
                   ELSE UNCHANGED <<clip_file, clip_tmp>>
    /\ UNCHANGED <<config, stats_file, sidecar, merged_file, merged_tmp, es, run>>
    /\ UNCHANGED notSearch

\* passes == self.config.passes(): the call is the outermost one, which
\* removes the stats file
StatsRemoved_AnyPass(call) == TRUE
StatsRemoved(call) == call.passes = passes(config)

\* the end of encode_scene_single: the call for the last pass removes the
\* stats file; the call for an earlier pass returns into the call for the
\* next pass, which goes on to spawn its encoder
EssCleanup ==
    /\ ess.pc = "cleanup"
    /\ LET name == QualityName(config, ess.qp)
       IN  /\ stats_file' = IF StatsRemoved(ess)
                            THEN [stats_file EXCEPT ![name] = FALSE]
                            ELSE stats_file
           /\ IF ess.passes = passes(config)
              THEN ess' = [ess EXCEPT !.pc = "ok"]
              ELSE ess' = [ess EXCEPT !.pc = "spawn", !.passes = @ + 1]
    /\ UNCHANGED <<config, clip_file, clip_tmp, sidecar, merged_file, merged_tmp, es, run>>
    /\ UNCHANGED notSearch

\* encode(): the worker wraps the clip in ClipMetrics (loading its cache) and
\* the aggregator reads clip.sizes(), computed from the clip unless cached
Aggregate ==
    /\ run.pc = "aggregate"
    /\ LET name == QualityName(config, es.quality)
       IN  IF sidecar[name].sizes
           THEN run' = [run EXCEPT !.pc = "merge"] /\ UNCHANGED sidecar
           ELSE IF clip_file[name] = NoFile
           THEN run' = [run EXCEPT !.pc = "err"] /\ UNCHANGED sidecar
           ELSE /\ run' = [run EXCEPT !.pc = "merge"]
                /\ sidecar' = [sidecar EXCEPT ![name].sizes = TRUE]
    /\ UNCHANGED <<config, clip_file, clip_tmp, stats_file, merged_file, merged_tmp, es, ess>>
    /\ UNCHANGED notSearch

\* !output_path.exists() at the entry of merge_scenes
MuxerNeeded_Always(file) == TRUE
MuxerNeeded(file) == file = 0

\* merge_scenes up to the spawn of mkvmerge, which is skipped if the final
\* output exists
MergeEnter ==
    /\ run.pc = "merge"
    /\ IF MuxerNeeded(merged_file)
       THEN run' = [run EXCEPT !.pc = "muxing", !.muxed = @ + 1,
                               !.merged_before = merged_file]
       ELSE run' = [run EXCEPT !.pc = "publish", !.merged_before = merged_file]
    /\ UNCHANGED <<config, clip_file, clip_tmp, stats_file, sidecar, merged_file, merged_tmp,
                   es, ess>>
    /\ UNCHANGED notSearch

\* wait_with_output(): mkvmerge has exited; on success it has written the
\* ".tmp.mkv" file, on failure it may have left one
MuxerExit ==
    /\ run.pc = "muxing"
    /\ \E success \in BOOLEAN, wrote \in BOOLEAN :
          /\ success => wrote
          /\ merged_tmp' = IF wrote THEN run.number ELSE merged_tmp
          /\ run' = [run EXCEPT !.pc = IF success THEN "publish" ELSE "err"]
    /\ UNCHANGED <<config, clip_file, clip_tmp, stats_file, sidecar, merged_file, es, ess>>
    /\ UNCHANGED notSearch

\* the end of merge_scenes: a ".tmp.mkv" file, if there is one, is renamed to
\* the final output
MergePublish ==
    /\ run.pc = "publish"
    /\ IF merged_tmp # 0
       THEN merged_file' = merged_tmp /\ merged_tmp' = 0
       ELSE UNCHANGED <<merged_file, merged_tmp>>
    /\ run' = [run EXCEPT !.pc = "ok"]
    /\ UNCHANGED <<config, clip_file, clip_tmp, stats_file, sidecar, es, ess>>
    /\ UNCHANGED notSearch

\* the program is run again on the same inputs and output directory, the
\* user having deleted the final output or not
NewRun ==
    /\ run.pc \in {"ok", "err"}
    /\ run.number < MaxRuns
    /\ \E delete \in BOOLEAN :
          /\ merged_file' = IF delete THEN 0 ELSE merged_file
          /\ run' = [pc |-> "encode_scene", number |-> run.number + 1, spawned |-> <<>>,
                     muxed |-> 0, probed |-> <<>>, after_ok |-> (run.pc = "ok"),
                     deleted |-> (delete /\ merged_file # 0), merged_before |-> 0]
    /\ es' = EsStartFrame
    /\ ess' = EssNoFrame
    /\ UNCHANGED <<config, clip_file, clip_tmp, stats_file, sidecar, merged_tmp>>
    /\ UNCHANGED notSearch

NextSearch ==
    \/ EsStart
    \/ EsLoop
    \/ EsProbeDone
    \/ EsError
    \/ EsFinal
    \/ EsReturn
    \/ EssEnter
    \/ EssSpawn
    \/ EssWait
    \/ EssPublish
    \/ EssCleanup
    \/ Aggregate
    \/ MergeEnter
    \/ MuxerExit
    \/ MergePublish
    \/ NewRun


(***************************************************************************)
(* The reduction of the per-frame samples of a probe (encoder.rs line 468) *)
(***************************************************************************)
MaxSamples == 3
MaxSample == 2

RECURSIVE InsertSample(_, _)
\* x placed in the ascending sequence s
InsertSample(s, x) ==
    IF s = <<>> THEN <<x>>
    ELSE IF x < s[Len(s)]
         THEN Append(InsertSample(SubSeq(s, 1, Len(s) - 1), x), s[Len(s)])
         ELSE Append(s, x)

RECURSIVE SortSamples(_)
\* the samples in ascending order
SortSamples(s) ==
    IF s = <<>> THEN <<>>
    ELSE InsertSample(SortSamples(SubSeq(s, 1, Len(s) - 1)), s[Len(s)])

RECURSIVE SumSamples(_)
SumSamples(s) == IF s = <<>> THEN 0 ELSE s[Len(s)] + SumSamples(SubSeq(s, 1, Len(s) - 1))

\* the mean of the samples
Mean(s) == [num |-> SumSamples(s), den |-> Len(s)]

\* Data::new(values).quantile(tau) for tau = halves / 2: the least sample at
\* 0, the greatest at 1, and at 1/2 the middle sample or the mean of the two
\* middle samples
Quantile(s, halves) ==
    LET sorted == SortSamples(s)
        n == Len(s)
    IN  IF halves = 0 THEN [num |-> sorted[1], den |-> 1]
        ELSE IF halves = 2 THEN [num |-> sorted[n], den |-> 1]
        ELSE IF n % 2 = 1 THEN [num |-> sorted[(n + 1) \div 2], den |-> 1]
        ELSE [num |-> sorted[n \div 2] + sorted[n \div 2 + 1], den |-> 2]

\* the scalar a probe compares with the target
Reduced(values, mean, halves) == Quantile(values, halves)

InitReduce ==
    /\ \E n \in 1..MaxSamples : metric_values \in [1..n -> 0..MaxSample]
    /\ use_mean \in BOOLEAN
    /\ percentile \in {0, 1, 2}
    /\ metric_value = None
    /\ reduce_pc = "reduce"
    /\ EncodeIdle
    /\ RangeIdle
    /\ SearchIdle
    /\ SplitIdle
    /\ MetricsIdle
    /\ ScoreIdle

\* let metric_value = Data::new(metric_values).quantile(self.config.percentile)
Reduce ==
    /\ reduce_pc = "reduce"
    /\ metric_value' = Reduced(metric_values, use_mean, percentile)
    /\ reduce_pc' = "done"
    /\ UNCHANGED <<metric_values, use_mean, percentile>>
    /\ UNCHANGED notReduce

NextReduce == Reduce

(***************************************************************************)
(* main, run, ffmpeg::get_metadata, scenes::get and scenes::split: one     *)
(* process after another on the same output directory.                      *)
(***************************************************************************)

MaxFrames == 3

\* the scene indices a source of at most MaxFrames frames can have
Slots == 0..(MaxFrames - 1)

\* the command lines of the model: the rejected pair and an accepted one
CliPairs == {<<"rav1e", "crf">>, <<"rav1e", "qp">>}

\* the strictly increasing frame numbers below n that start with frame 0,
\* as the scene detector reports the scene changes of n decoded frames
SceneChanges(n) ==
    {s \in UNION {[1..k -> 0..(n - 1)] : k \in 1..n} :
        /\ s[1] = 0
        /\ \A j \in 1..(Len(s) - 1) : s[j] < s[j + 1]}

\* the Vec<Scene> scenes::get builds from the detector's scene changes and
\* the frame count of the metadata
Scenes(scene_changes, frame_count) ==
    LET changes == Append(scene_changes, frame_count)
    IN  [i \in 1..Len(scene_changes) |->
            [index |-> i - 1,
             start_frame |-> changes[i],
             end_frame |-> changes[i + 1] - 1]]

\* the number of iterations of `for _ in scene.start_frame..=scene.end_frame`
FrameSpan(scene) ==
    IF scene.end_frame < scene.start_frame THEN 0
    ELSE scene.end_frame - scene.start_frame + 1

NoProcess == [status |-> "none", file |-> "none", eof |-> FALSE]

NoRenames == [k \in Slots |-> "none"]

\* the test of main: rav1e has no CRF mode
Rejected_Never(c) == FALSE

Rejected(c) == c.encoder = "rav1e" /\ c.mode = "crf"

InitSplit ==
    /\ \E pair \in CliPairs : cli = [encoder |-> pair[1], mode |-> pair[2]]
    /\ \E n \in 1..MaxFrames, m \in 1..MaxFrames, readable \in BOOLEAN :
         \E sc \in SceneChanges(n) :
            source = [frames |-> n, frame_count |-> m, scene_changes |-> sc,
                      readable |-> readable]
    /\ main_pc = "main"
    /\ caller = "none"
    /\ dirs = {}
    /\ metadata_json = "absent"
    /\ scenes_json = "absent"
    /\ memo = FALSE
    /\ scene_list = <<>>
    /\ source_final = [k \in Slots |-> "absent"]
    /\ source_tmp = [k \in Slots |-> "absent"]
    /\ ffmpeg = [k \in Slots |-> NoProcess]
    /\ split = [i |-> 0, decoded |-> 0]
    /\ split_hist = [run |-> 1, spawned |-> FALSE, cache_read |-> FALSE,
                     partial_read |-> FALSE, renamed |-> NoRenames, probes |-> 0]
    /\ EncodeIdle
    /\ RangeIdle
    /\ SearchIdle
    /\ ReduceIdle
    /\ MetricsIdle
    /\ ScoreIdle

\* main: install_tracing, Config::parse, and the rav1e + CRF test succeeding
MainReject ==
    /\ main_pc = "main"
    /\ Rejected(cli)
    /\ main_pc' = "rejected"
    /\ UNCHANGED <<cli, source, caller, dirs, metadata_json, scenes_json, memo,
                   scene_list, source_final, source_tmp, ffmpeg, split, split_hist>>
    /\ UNCHANGED notSplit

\* main: the test fails, run() is called
MainRun ==
    /\ main_pc = "main"
    /\ ~Rejected(cli)
    /\ main_pc' = "run"
    /\ UNCHANGED <<cli, source, caller, dirs, metadata_json, scenes_json, memo,
                   scene_list, source_final, source_tmp, ffmpeg, split, split_hist>>
    /\ UNCHANGED notSplit

\* run: the rayon pool, verify_directory(output_directory), then get_metadata
RunSetup ==
    /\ main_pc = "run"
    /\ dirs' = dirs \cup {"output"}
    /\ main_pc' = "metadata"
    /\ caller' = "run"
    /\ UNCHANGED <<cli, source, metadata_json, scenes_json, memo,
                   scene_list, source_final, source_tmp, ffmpeg, split, split_hist>>
    /\ UNCHANGED notSplit

\* where get_metadata returns to: run() drops the result, scenes::get
\* propagates an error with `?`
AfterMetadata(ok) ==
    IF caller = "run" THEN "split"
    ELSE IF ok THEN "get_scenes" ELSE "exit_err"

\* get_metadata: the value cached by #[cached] for this process
MetadataMemo ==
    /\ main_pc = "metadata"
    /\ memo
    /\ main_pc' = AfterMetadata(TRUE)
    /\ caller' = "none"
    /\ UNCHANGED <<cli, source, dirs, metadata_json, scenes_json, memo,
                   scene_list, source_final, source_tmp, ffmpeg, split, split_hist>>
    /\ UNCHANGED notSplit

\* json_path.exists() in get_metadata and scenes::get
CacheExists_Never(file) == FALSE
CacheExists(file) == file # "absent"

\* get_metadata: json_path.exists(), the cache is deserialized
MetadataRead ==
    /\ main_pc = "metadata"
    /\ ~memo
    /\ CacheExists(metadata_json)
    /\ dirs' = dirs \cup {"config"}
    /\ memo' = (metadata_json = "complete")
    /\ main_pc' = AfterMetadata(metadata_json = "complete")
    /\ caller' = "none"
    /\ split_hist' = [split_hist EXCEPT
                        !.cache_read = TRUE,
                        !.partial_read = @ \/ metadata_json = "partial"]
    /\ UNCHANGED <<cli, source, metadata_json, scenes_json,
                   scene_list, source_final, source_tmp, ffmpeg, split>>
    /\ UNCHANGED notSplit

\* get_metadata: read_metadata probes the packets of the source, an error
\* if it cannot be read; then File::create(&json_path)
MetadataCompute ==
    /\ main_pc = "metadata"
    /\ ~memo
    /\ ~CacheExists(metadata_json)
    /\ dirs' = dirs \cup {"config"}
    /\ split_hist' = [split_hist EXCEPT !.probes = @ + 1]
    /\ IF source.readable
       THEN /\ metadata_json' = "partial"
            /\ main_pc' = "metadata_write"
            /\ UNCHANGED caller
       ELSE /\ main_pc' = AfterMetadata(FALSE)
            /\ caller' = "none"
            /\ UNCHANGED metadata_json
    /\ UNCHANGED <<cli, source, scenes_json, memo,
                   scene_list, source_final, source_tmp, ffmpeg, split>>
    /\ UNCHANGED notSplit

\* get_metadata: serde_json::to_writer_pretty has written the whole value
MetadataWrite ==
    /\ main_pc = "metadata_write"
    /\ metadata_json' = "complete"
    /\ memo' = TRUE
    /\ main_pc' = AfterMetadata(TRUE)
    /\ caller' = "none"
    /\ UNCHANGED <<cli, source, dirs, scenes_json,
                   scene_list, source_final, source_tmp, ffmpeg, split, split_hist>>
    /\ UNCHANGED notSplit

\* scenes::split up to the call of get_metadata inside scenes::get:
\* verify_directory(source), verify_filename(scenes.json)
SplitEnter ==
    /\ main_pc = "split"
    /\ dirs' = dirs \cup {"source", "config"}
    /\ main_pc' = "metadata"
    /\ caller' = "get"
    /\ UNCHANGED <<cli, source, metadata_json, scenes_json, memo,
                   scene_list, source_final, source_tmp, ffmpeg, split, split_hist>>
    /\ UNCHANGED notSplit

\* scenes::get: json_path.exists(), the cached catalog is deserialized
GetRead ==
    /\ main_pc = "get_scenes"
    /\ CacheExists(scenes_json)
    /\ scene_list' = IF scenes_json = "complete"
                  THEN Scenes(source.scene_changes, source.frame_count)
                  ELSE <<>>
    /\ main_pc' = IF scenes_json = "complete" THEN "split_check" ELSE "exit_err"
    /\ split_hist' = [split_hist EXCEPT
                        !.cache_read = TRUE,
                        !.partial_read = @ \/ scenes_json = "partial"]
    /\ UNCHANGED <<cli, source, caller, dirs, metadata_json, scenes_json, memo,
                   source_final, source_tmp, ffmpeg, split>>
    /\ UNCHANGED notSplit

\* scenes::get: the decoder subprocess, detect_scene_changes, the catalog,
\* then File::create(&json_path)
GetDetect ==
    /\ main_pc = "get_scenes"
    /\ ~CacheExists(scenes_json)
    /\ scene_list' = Scenes(source.scene_changes, source.frame_count)
    /\ scenes_json' = "partial"
    /\ main_pc' = "get_write"
    /\ split_hist' = [split_hist EXCEPT !.spawned = TRUE]
    /\ UNCHANGED <<cli, source, caller, dirs, metadata_json, memo,
                   source_final, source_tmp, ffmpeg, split>>
    /\ UNCHANGED notSplit

\* scenes::get: serde_json::to_writer_pretty has written the whole catalog
GetWrite ==
    /\ main_pc = "get_write"
    /\ scenes_json' = "complete"
    /\ main_pc' = "split_check"
    /\ UNCHANGED <<cli, source, caller, dirs, metadata_json, memo,
                   scene_list, source_final, source_tmp, ffmpeg, split, split_hist>>
    /\ UNCHANGED notSplit

\* let complete = scenes.iter().all(|scene| output_filename.exists())
Complete ==
    \A j \in 1..Len(scene_list) : source_final[scene_list[j].index] # "absent"

\* scenes::split: every scene file exists; the progress bar is advanced by
\* end_frame - start_frame + 1, which overflows for a scene that ends before
\* it starts: a panic with overflow checks, a wrapped value without
SplitComplete ==
    /\ main_pc = "split_check"
    /\ Complete
    /\ \E panics \in BOOLEAN :
         /\ panics => \E j \in 1..Len(scene_list) :
                         scene_list[j].end_frame < scene_list[j].start_frame
         /\ main_pc' = IF panics THEN "exit_err" ELSE "exit_ok"
    /\ UNCHANGED <<cli, source, caller, dirs, metadata_json, scenes_json, memo,
                   scene_list, source_final, source_tmp, ffmpeg, split, split_hist>>
    /\ UNCHANGED notSplit

\* scenes::split: some scene file is missing, the decoder subprocess is spawned
SplitDecode ==
    /\ main_pc = "split_check"
    /\ ~Complete
    /\ split' = [i |-> 1, decoded |-> 0]
    /\ main_pc' = "split_scene"
    /\ split_hist' = [split_hist EXCEPT !.spawned = TRUE]
    /\ UNCHANGED <<cli, source, caller, dirs, metadata_json, scenes_json, memo,
                   scene_list, source_final, source_tmp, ffmpeg>>
    /\ UNCHANGED notSplit

\* the scene the loop of scenes::split is at
SplitScene == scene_list[split.i]

\* decoder.read_frame()? inside the loop over the frames of a scene: the
\* decoder has no frame left before the scene has all of its frames
FramesRunOut_Never(scene) == FALSE
FramesRunOut(scene) == split.decoded + FrameSpan(scene) > source.frames

\* final_output_filename.exists(): the frames of the scene are read and dropped
SplitSkip ==
    /\ main_pc = "split_scene"
    /\ split.i <= Len(scene_list)
    /\ source_final[SplitScene.index] # "absent"
    /\ IF FramesRunOut(SplitScene)
       THEN /\ main_pc' = "exit_err"
            /\ split' = [split EXCEPT !.decoded = source.frames]
       ELSE /\ main_pc' = "split_publish"
            /\ split' = [split EXCEPT !.decoded = @ + FrameSpan(SplitScene)]
    /\ UNCHANGED <<cli, source, caller, dirs, metadata_json, scenes_json, memo,
                   scene_list, source_final, source_tmp, ffmpeg, split_hist>>
    /\ UNCHANGED notSplit

\* the scene file is missing: a temporary file left behind is removed and
\* the encoder subprocess is spawned on the temporary name
SplitSpawn ==
    /\ main_pc = "split_scene"
    /\ split.i <= Len(scene_list)
    /\ source_final[SplitScene.index] = "absent"
    /\ source_tmp' = [source_tmp EXCEPT ![SplitScene.index] = "absent"]
    /\ ffmpeg' = [ffmpeg EXCEPT ![SplitScene.index] =
                     [status |-> "running", file |-> "none", eof |-> FALSE]]
    /\ main_pc' = "split_feed"
    /\ split_hist' = [split_hist EXCEPT !.spawned = TRUE]
    /\ UNCHANGED <<cli, source, caller, dirs, metadata_json, scenes_json, memo,
                   scene_list, source_final, split>>
    /\ UNCHANGED notSplit

\* the header and the frames of the scene are written to the subprocess; the
\* y4m encoder, and with it the pipe, is dropped at the end of the block
SplitFeed ==
    /\ main_pc = "split_feed"
    /\ ffmpeg' = [ffmpeg EXCEPT ![SplitScene.index].eof = TRUE]
    /\ IF \/ ffmpeg[SplitScene.index].status = "failed"
          \/ FramesRunOut(SplitScene)
       THEN /\ main_pc' = "exit_err"
            /\ UNCHANGED split
       ELSE /\ main_pc' = "split_publish"
            /\ split' = [split EXCEPT !.decoded = @ + FrameSpan(SplitScene)]
    /\ UNCHANGED <<cli, source, caller, dirs, metadata_json, scenes_json, memo,
                   scene_list, source_final, source_tmp, split_hist>>
    /\ UNCHANGED notSplit

\* if temporary_output_filename.exists() { rename(temporary, final) }
SplitPublish ==
    /\ main_pc = "split_publish"
    /\ LET k == SplitScene.index
       IN  IF source_tmp[k] # "absent"
           THEN /\ source_final' = [source_final EXCEPT ![k] = source_tmp[k]]
                /\ source_tmp' = [source_tmp EXCEPT ![k] = "absent"]
                /\ ffmpeg' = [ffmpeg EXCEPT ![k].file =
                                 IF @ = "tmp" THEN "final" ELSE @]
                /\ split_hist' = [split_hist EXCEPT
                                    !.renamed[k] = ffmpeg[k].status]
           ELSE UNCHANGED <<source_final, source_tmp, ffmpeg, split_hist>>
    /\ split' = [split EXCEPT !.i = @ + 1]
    /\ main_pc' = "split_scene"
    /\ UNCHANGED <<cli, source, caller, dirs, metadata_json, scenes_json, memo,
                   scene_list>>
    /\ UNCHANGED notSplit

\* the loop over the scenes is over: progress_bar.finish(); Ok(())
SplitDone ==
    /\ main_pc = "split_scene"
    /\ split.i > Len(scene_list)
    /\ main_pc' = "exit_ok"
    /\ UNCHANGED <<cli, source, caller, dirs, metadata_json, scenes_json, memo,
                   scene_list, source_final, source_tmp, ffmpeg, split, split_hist>>
    /\ UNCHANGED notSplit

\* the encoder subprocess of scene k creates its output file
FfmpegCreate(k) ==
    /\ ffmpeg[k].status = "running"
    /\ ffmpeg[k].file = "none"
    /\ source_tmp' = [source_tmp EXCEPT ![k] = "partial"]
    /\ ffmpeg' = [ffmpeg EXCEPT ![k].file = "tmp"]
    /\ UNCHANGED <<cli, source, main_pc, caller, dirs, metadata_json, scenes_json,
                   memo, scene_list, source_final, split, split_hist>>
    /\ UNCHANGED notSplit

\* the encoder subprocess of scene k has read its whole input, finishes its
\* output file under whatever name the file has by now, and exits with 0
FfmpegExit(k) ==
    /\ ffmpeg[k].status = "running"
    /\ ffmpeg[k].eof
    /\ ffmpeg[k].file # "none"
    /\ ffmpeg' = [ffmpeg EXCEPT ![k].status = "ok"]
    /\ IF ffmpeg[k].file = "tmp"
       THEN /\ source_tmp' = [source_tmp EXCEPT ![k] = "complete"]
            /\ UNCHANGED source_final
       ELSE /\ source_final' = [source_final EXCEPT ![k] = "complete"]
            /\ UNCHANGED source_tmp
    /\ UNCHANGED <<cli, source, main_pc, caller, dirs, metadata_json, scenes_json,
                   memo, scene_list, split, split_hist>>
    /\ UNCHANGED notSplit

\* the encoder subprocess of scene k exits with a failure, leaving what it wrote
FfmpegFail(k) ==
    /\ ffmpeg[k].status = "running"
    /\ ffmpeg' = [ffmpeg EXCEPT ![k].status = "failed"]
    /\ UNCHANGED <<cli, source, main_pc, caller, dirs, metadata_json, scenes_json,
                   memo, scene_list, source_final, source_tmp, split, split_hist>>
    /\ UNCHANGED notSplit

Returned == main_pc \in {"rejected", "exit_ok", "exit_err", "killed"}

\* the process is terminated abruptly; the pipes it held are closed
Kill ==
    /\ ~Returned
    /\ main_pc' = "killed"
    /\ ffmpeg' = [k \in Slots |-> [ffmpeg[k] EXCEPT !.eof = TRUE]]
    /\ UNCHANGED <<cli, source, caller, dirs, metadata_json, scenes_json, memo,
                   scene_list, source_final, source_tmp, split, split_hist>>
    /\ UNCHANGED notSplit

\* the program is started again with the same command line, source and
\* output directory, once the subprocesses of the last run are gone
Rerun ==
    /\ Returned
    /\ split_hist.run < MaxRuns
    /\ \A k \in Slots : ffmpeg[k].status # "running"
    /\ main_pc' = "main"
    /\ caller' = "none"
    /\ memo' = FALSE
    /\ scene_list' = <<>>
    /\ ffmpeg' = [k \in Slots |-> NoProcess]
    /\ split' = [i |-> 0, decoded |-> 0]
    /\ split_hist' = [split_hist EXCEPT !.run = @ + 1, !.renamed = NoRenames,
                                        !.probes = 0]
    /\ UNCHANGED <<cli, source, dirs, metadata_json, scenes_json,
                   source_final, source_tmp>>
    /\ UNCHANGED notSplit

NextSplit ==
    \/ MainReject
    \/ MainRun
    \/ RunSetup
    \/ MetadataMemo
    \/ MetadataRead
    \/ MetadataCompute
    \/ MetadataWrite
    \/ SplitEnter
    \/ GetRead
    \/ GetDetect
    \/ GetWrite
    \/ SplitComplete
    \/ SplitDecode
    \/ SplitSkip
    \/ SplitSpawn
    \/ SplitFeed
    \/ SplitPublish
    \/ SplitDone
    \/ \E k \in Slots : FfmpegCreate(k)
    \/ \E k \in Slots : FfmpegExit(k)
    \/ \E k \in Slots : FfmpegFail(k)
    \/ Kill
    \/ Rerun

(***************************************************************************)
(* ClipMetrics (metrics.rs): the measurements of one clip in memory, the   *)
(* getters that compute them on demand, and the JSON sidecar that caches   *)
(* them between processes.                                                 *)
(***************************************************************************)
MaxPackets == 2

\* Option<T>: None, Some(v), Option::is_none
NoField == [some |-> FALSE]
Field(v) == [some |-> TRUE, value |-> v]
is_none(field) == ~field.some

Fields == {"duration", "sizes", "vmaf", "psnr", "ssim", "ssimulacra2"}

\* the record ClipMetrics::new builds when there is no sidecar
Fresh ==
    [duration |-> NoField, sizes |-> NoField, vmaf |-> NoField, psnr |-> NoField,
     ssim |-> NoField, ssimulacra2 |-> NoField]

\* What FFmpeg and the metric tools report about a clip.  An f64 is held in
\* halves (3 stands for 1.5), so that every value has an exact decimal form.
PacketSizes == UNION {[1..n -> {1}] : n \in 0..MaxPackets}
ContainerDurations == {-1, 1}
FrameRates == {1, 2}
Scores == {1, 3}
LogFrames == [vmaf : Scores, psnr_y : Scores, float_ssim : Scores]
FFmpegLogs == {<<>>} \cup {<<frame>> : frame \in LogFrames}
Ssimulacra2Scores == {<<>>} \cup {<<score>> : score \in Scores}

\* the files of the sidecar and of its temporary: absent, cut short by an
\* interrupted write, or a complete JSON object
NoJson == [state |-> "absent"]
PartialJson == [state |-> "partial"]
Json(object) == [state |-> "complete", object |-> object]

\* serde_json::to_writer_pretty of the derived Serialize: the four skipped
\* fields are left out, None is written as null, an f64 with its fraction,
\* a usize without one
Null == [kind |-> "null"]
to_json_f64(halves) ==
    [kind |-> "float", int |-> halves \div 2, frac |-> IF halves % 2 = 0 THEN 0 ELSE 5]
to_json_usize(n) == [kind |-> "integer", int |-> n]
to_json_vec_f64(field) ==
    IF is_none(field) THEN Null
    ELSE [kind |-> "array",
          items |-> [i \in DOMAIN field.value |-> to_json_f64(field.value[i])]]
to_json_vec_usize(field) ==
    IF is_none(field) THEN Null
    ELSE [kind |-> "array",
          items |-> [i \in DOMAIN field.value |-> to_json_usize(field.value[i])]]
Serialize(r) ==
    [duration |-> IF is_none(r.duration) THEN Null ELSE to_json_f64(r.duration.value),
     sizes |-> to_json_vec_usize(r.sizes),
     vmaf |-> to_json_vec_f64(r.vmaf),
     psnr |-> to_json_vec_f64(r.psnr),
     ssim |-> to_json_vec_f64(r.ssim),
     ssimulacra2 |-> to_json_vec_f64(r.ssimulacra2)]

\* serde_json::from_reader of the derived Deserialize: null is None, a number
\* with or without a fraction is an f64, only a number without one is a usize
is_f64(token) == token.kind \in {"float", "integer"}
from_json_f64(token) ==
    IF token.kind = "float" THEN 2 * token.int + (IF token.frac = 5 THEN 1 ELSE 0)
    ELSE 2 * token.int
is_vec_f64(token) ==
    \/ token.kind = "null"
    \/ token.kind = "array" /\ \A i \in DOMAIN token.items : is_f64(token.items[i])
from_json_vec_f64(token) ==
    IF token.kind = "null" THEN NoField
    ELSE Field([i \in DOMAIN token.items |-> from_json_f64(token.items[i])])
is_vec_usize(token) ==
    \/ token.kind = "null"
    \/ token.kind = "array" /\ \A i \in DOMAIN token.items : token.items[i].kind = "integer"
from_json_vec_usize(token) ==
    IF token.kind = "null" THEN NoField
    ELSE Field([i \in DOMAIN token.items |-> token.items[i].int])
Deserializable(file) ==
    /\ file.state = "complete"
    /\ file.object.duration.kind = "null" \/ is_f64(file.object.duration)
    /\ is_vec_usize(file.object.sizes)
    /\ is_vec_f64(file.object.vmaf)
    /\ is_vec_f64(file.object.psnr)
    /\ is_vec_f64(file.object.ssim)
    /\ is_vec_f64(file.object.ssimulacra2)
from_reader(object) ==
    [duration |-> IF object.duration.kind = "null" THEN NoField
                  ELSE Field(from_json_f64(object.duration)),
     sizes |-> from_json_vec_usize(object.sizes),
     vmaf |-> from_json_vec_f64(object.vmaf),
     psnr |-> from_json_vec_f64(object.psnr),
     ssim |-> from_json_vec_f64(object.ssim),
     ssimulacra2 |-> from_json_vec_f64(object.ssimulacra2)]

\* the test every getter makes before it computes: `if self.sizes.is_none()`
Missing_Always(r, f) == TRUE
Missing(r, f) == is_none(r[f])

InitMetrics ==
    /\ record = Fresh
    /\ metrics_pc = "none"
    /\ json_file = NoJson
    /\ json_tmp = NoJson
    /\ log_file = FALSE
    /\ metrics_hist = [written |-> Fresh, loaded |-> FALSE, op |-> "none"]
    /\ EncodeIdle
    /\ RangeIdle
    /\ SearchIdle
    /\ ReduceIdle
    /\ SplitIdle
    /\ ScoreIdle

\* ClipMetrics::new: the sidecar if it exists, else a record of None
ClipMetricsNew ==
    /\ metrics_pc = "none"
    /\ IF json_file.state # "absent"
       THEN IF Deserializable(json_file)
            THEN record' = from_reader(json_file.object) /\ metrics_pc' = "ready"
            ELSE record' = record /\ metrics_pc' = "err"
       ELSE record' = Fresh /\ metrics_pc' = "ready"
    /\ metrics_hist' = [metrics_hist EXCEPT !.loaded = json_file.state # "absent",
                                            !.op = "new"]
    /\ UNCHANGED <<json_file, json_tmp, log_file>>
    /\ UNCHANGED notMetrics

\* a getter whose field is present returns it
Getter(f) ==
    /\ metrics_pc = "ready"
    /\ ~Missing(record, f)
    /\ metrics_hist' = [metrics_hist EXCEPT !.op = "get"]
    /\ UNCHANGED <<record, metrics_pc, json_file, json_tmp, log_file>>
    /\ UNCHANGED notMetrics

\* duration(), sizes() and frames() on a missing field: calculate_duration_and_size
\* up to its call of update_cache
CalculateDurationAndSize(f) ==
    /\ metrics_pc = "ready"
    /\ f \in {"duration", "sizes"}
    /\ Missing(record, f)
    /\ \/ /\ metrics_pc' = "err"
          /\ UNCHANGED record
       \/ \E packet_sizes \in PacketSizes, duration \in ContainerDurations,
             avg_frame_rate \in FrameRates :
             /\ record' = [record EXCEPT
                    !.duration = Field(IF duration >= 0 THEN duration
                                       ELSE (2 * Len(packet_sizes)) \div avg_frame_rate),
                    !.sizes = Field(packet_sizes)]
             /\ metrics_pc' = "update_cache"
    /\ metrics_hist' = [metrics_hist EXCEPT !.op = "compute"]
    /\ UNCHANGED <<json_file, json_tmp, log_file>>
    /\ UNCHANGED notMetrics

\* psnr(), ssim() and vmaf() on a missing field: calculate_ffmpeg_metrics up to
\* the removal of the log
CalculateFfmpegMetrics(f) ==
    /\ metrics_pc = "ready"
    /\ f \in {"vmaf", "psnr", "ssim"}
    /\ Missing(record, f)
    /\ \/ \E written \in BOOLEAN :
             /\ log_file' = (log_file \/ written)
             /\ metrics_pc' = "err"
             /\ UNCHANGED record
       \/ \E log \in FFmpegLogs :
             /\ log_file' = TRUE
             /\ record' = [record EXCEPT
                    !.vmaf = Field([i \in DOMAIN log |-> log[i].vmaf]),
                    !.psnr = Field([i \in DOMAIN log |-> log[i].psnr_y]),
                    !.ssim = Field([i \in DOMAIN log |-> log[i].float_ssim])]
             /\ metrics_pc' = "remove_log"
    /\ metrics_hist' = [metrics_hist EXCEPT !.op = "compute"]
    /\ UNCHANGED <<json_file, json_tmp>>
    /\ UNCHANGED notMetrics

\* fs::remove_file(&log_path)?
RemoveLog ==
    /\ metrics_pc = "remove_log"
    /\ \/ log_file' = FALSE /\ metrics_pc' = "update_cache"
       \/ log_file' = log_file /\ metrics_pc' = "err"
    /\ UNCHANGED <<record, json_file, json_tmp, metrics_hist>>
    /\ UNCHANGED notMetrics

\* ssimulacra2() on a missing field: calculate_ssimulacra2 up to update_cache
CalculateSsimulacra2(f) ==
    /\ metrics_pc = "ready"
    /\ f = "ssimulacra2"
    /\ Missing(record, f)
    /\ \/ /\ metrics_pc' = "err"
          /\ UNCHANGED record
       \/ \E scores \in Ssimulacra2Scores :
             /\ record' = [record EXCEPT !.ssimulacra2 = Field(scores)]
             /\ metrics_pc' = "update_cache"
    /\ metrics_hist' = [metrics_hist EXCEPT !.op = "compute"]
    /\ UNCHANGED <<json_file, json_tmp, log_file>>
    /\ UNCHANGED notMetrics

\* update_cache: File::create of the temporary and to_writer_pretty into it
UpdateCacheCreate ==
    /\ metrics_pc = "update_cache"
    /\ \/ json_tmp' = json_tmp /\ metrics_pc' = "err"
       \/ json_tmp' = PartialJson /\ metrics_pc' = "err"
       \/ json_tmp' = Json(Serialize(record)) /\ metrics_pc' = "rename"
    /\ UNCHANGED <<record, json_file, log_file, metrics_hist>>
    /\ UNCHANGED notMetrics

\* update_cache: fs::rename of the temporary onto the sidecar
UpdateCacheRename ==
    /\ metrics_pc = "rename"
    /\ \/ /\ json_file' = json_tmp
          /\ json_tmp' = NoJson
          /\ metrics_hist' = [metrics_hist EXCEPT !.written = record]
          /\ metrics_pc' = "ready"
       \/ /\ metrics_pc' = "err"
          /\ UNCHANGED <<json_file, json_tmp, metrics_hist>>
    /\ UNCHANGED <<record, log_file>>
    /\ UNCHANGED notMetrics

\* the record is dropped: its owner returned, the error reached main, or the
\* process was killed
Dropped ==
    /\ metrics_pc # "none"
    /\ metrics_pc' = "none"
    /\ record' = Fresh
    /\ \/ json_tmp' = json_tmp
       \/ metrics_pc = "update_cache" /\ json_tmp' = PartialJson
    /\ UNCHANGED <<json_file, log_file, metrics_hist>>
    /\ UNCHANGED notMetrics

NextMetrics ==
    \/ ClipMetricsNew
    \/ \E f \in Fields : Getter(f)
    \/ \E f \in Fields : CalculateDurationAndSize(f)
    \/ \E f \in Fields : CalculateFfmpegMetrics(f)
    \/ \E f \in Fields : CalculateSsimulacra2(f)
    \/ RemoveLog
    \/ UpdateCacheCreate
    \/ UpdateCacheRename
    \/ Dropped

(***************************************************************************)
(* The SSIMULACRA2 routine: compare_videos and calc_score (ssimulacra2.rs) *)
(***************************************************************************)
MaxThreads == 2
MaxClipFrames == 2

Scorers == 0..(ss_threads - 1)

\* compute_frame_ssimulacra2(reference_yuv, distorted_yuv): a value that
\* depends on which two frames were compared
ScoreOf(reference_frame, distorted_frame) == <<reference_frame, distorted_frame>>

\* BTreeMap::insert(key, value): a later value replaces an earlier one
BTreeInsert(map, key, value) ==
    [k \in (DOMAIN map) \cup {key} |-> IF k = key THEN value ELSE map[k]]

MinKey(map) == CHOOSE k \in DOMAIN map : \A j \in DOMAIN map : k <= j

\* BTreeMap::into_values().collect(): the values in ascending order of key
RECURSIVE into_values(_)
into_values(map) ==
    IF DOMAIN map = {} THEN <<>>
    ELSE <<map[MinKey(map)]>> \o into_values([k \in (DOMAIN map) \ {MinKey(map)} |-> map[k]])

\* mutex.lock() returns when no other thread holds the guard
LockFree(d) == d.holder = {}

InitScore ==
    /\ ss_threads \in 0..MaxThreads
    /\ clip_pair \in [reference : 0..MaxClipFrames, distorted : 0..MaxClipFrames,
                      unscorable : SUBSET (0..(MaxClipFrames - 1))]
    /\ decoders = [current_frame |-> 0, reference |-> 0, distorted |-> 0, holder |-> {}]
    /\ scorer = [t \in Scorers |-> [pc |-> "lock", frame_index |-> 0,
                                    reference_frame |-> 0, distorted_frame |-> 0]]
    /\ result_rx = <<>>
    /\ results = <<>>
    /\ ss_main = [pc |-> "collect", scores |-> <<>>]
    /\ score_hist = <<>>
    /\ EncodeIdle
    /\ RangeIdle
    /\ SearchIdle
    /\ ReduceIdle
    /\ SplitIdle
    /\ MetricsIdle

\* let mut guard = mutex.lock()?
Lock(t) ==
    /\ scorer[t].pc = "lock"
    /\ LockFree(decoders)
    /\ decoders' = [decoders EXCEPT !.holder = {t}]
    /\ scorer' = [scorer EXCEPT ![t].pc = "index"]
    /\ UNCHANGED <<ss_threads, clip_pair, result_rx, results, ss_main, score_hist>>
    /\ UNCHANGED notScore

\* let frame_index = guard.0
ReadIndex(t) ==
    /\ scorer[t].pc = "index"
    /\ scorer' = [scorer EXCEPT ![t].pc = "reference",
                                ![t].frame_index = decoders.current_frame]
    /\ UNCHANGED <<ss_threads, clip_pair, decoders, result_rx, results, ss_main, score_hist>>
    /\ UNCHANGED notScore

\* guard.1.0.read_video_frame(..)?: past the last frame the error leaves
\* calc_score and the thread, and the guard is dropped
ReadReference(t) ==
    /\ scorer[t].pc = "reference"
    /\ IF decoders.reference < clip_pair.reference
       THEN /\ decoders' = [decoders EXCEPT !.reference = @ + 1]
            /\ scorer' = [scorer EXCEPT ![t].pc = "distorted",
                                        ![t].reference_frame = decoders.reference]
       ELSE /\ decoders' = [decoders EXCEPT !.holder = {}]
            /\ scorer' = [scorer EXCEPT ![t].pc = "returned_err"]
    /\ UNCHANGED <<ss_threads, clip_pair, result_rx, results, ss_main, score_hist>>
    /\ UNCHANGED notScore

\* guard.1.1.read_video_frame(..)?; guard.0 += 1; the guard is dropped at the
\* end of the block
ReadDistorted(t) ==
    /\ scorer[t].pc = "distorted"
    /\ IF decoders.distorted < clip_pair.distorted
       THEN /\ decoders' = [decoders EXCEPT !.distorted = @ + 1, !.current_frame = @ + 1,
                                            !.holder = {}]
            /\ scorer' = [scorer EXCEPT ![t].pc = "score",
                                        ![t].distorted_frame = decoders.distorted]
            /\ score_hist' = Append(score_hist,
                                    [thread |-> t, frame_index |-> scorer[t].frame_index,
                                     reference_frame |-> scorer[t].reference_frame,
                                     distorted_frame |-> decoders.distorted])
       ELSE /\ decoders' = [decoders EXCEPT !.holder = {}]
            /\ scorer' = [scorer EXCEPT ![t].pc = "returned_err"]
            /\ UNCHANGED score_hist
    /\ UNCHANGED <<ss_threads, clip_pair, result_rx, results, ss_main>>
    /\ UNCHANGED notScore

\* Yuv::new(..)? twice and compute_frame_ssimulacra2(..)?, outside the lock;
\* then result_tx.send(result) and the next iteration of the thread's loop.
\* An error returns from the closure; nothing reads the closure's result
Score(t) ==
    /\ scorer[t].pc = "score"
    /\ IF scorer[t].reference_frame \in clip_pair.unscorable
       THEN /\ scorer' = [scorer EXCEPT ![t].pc = "returned_err"]
            /\ UNCHANGED result_rx
       ELSE /\ result_rx' = Append(result_rx,
                                   <<scorer[t].frame_index,
                                     ScoreOf(scorer[t].reference_frame, scorer[t].distorted_frame)>>)
            /\ scorer' = [scorer EXCEPT ![t].pc = "lock"]
    /\ UNCHANGED <<ss_threads, clip_pair, decoders, results, ss_main, score_hist>>
    /\ UNCHANGED notScore

\* for score in result_rx { results.insert(score.0, score.1); }
Receive ==
    /\ ss_main.pc = "collect"
    /\ result_rx # <<>>
    /\ results' = BTreeInsert(results, Head(result_rx)[1], Head(result_rx)[2])
    /\ result_rx' = Tail(result_rx)
    /\ UNCHANGED <<ss_threads, clip_pair, decoders, scorer, ss_main, score_hist>>
    /\ UNCHANGED notScore

\* the iteration over result_rx ends when the channel is empty and every
\* sender is dropped, that is when every thread has returned:
\* Ok(results.into_values().collect())
CompareVideosReturn ==
    /\ ss_main.pc = "collect"
    /\ result_rx = <<>>
    /\ \A t \in Scorers : scorer[t].pc = "returned_err"
    /\ ss_main' = [pc |-> "ok", scores |-> into_values(results)]
    /\ UNCHANGED <<ss_threads, clip_pair, decoders, scorer, result_rx, results, score_hist>>
    /\ UNCHANGED notScore

NextScore ==
    \/ \E t \in Scorers : Lock(t)
    \/ \E t \in Scorers : ReadIndex(t)
    \/ \E t \in Scorers : ReadReference(t)
    \/ \E t \in Scorers : ReadDistorted(t)
    \/ \E t \in Scorers : Score(t)
    \/ Receive
    \/ CompareVideosReturn

vars == <<encodeVars, rangeVars, searchVars, reduceVars, splitVars, metricsVars, scoreVars>>

Spec == InitEncode /\ [][NextEncode]_vars

\* the steps of the worker thread t, and of the main thread in encode()
WorkerStep(t) ==
    /\ t \in Threads
    /\ \/ WorkerPop(t)
       \/ WorkerProbe(t)
       \/ WorkerProbeDone(t)
       \/ WorkerPushResult(t)
       \/ WorkerPushQuality(t)
AggregatorStep == AggCheck \/ AggPopResult \/ AggPopQuality \/ AggJoin \/ AggAbort \/ SortAndMerge

\* encode_scene returns: its bisection loop ends when the range is used up
\* (QualityRange::current returns None), so a worker does not probe for ever
EncodeSceneReturns(t) == t \in Threads /\ WorkerPushResult(t)

\* Encoder::encode when every thread that can take a step is scheduled in
\* the end, every subprocess and metric computation returns and every
\* bisection ends
SpecFair ==
    /\ InitEncode
    /\ [][NextEncode]_vars
    /\ \A t \in 0..(MaxWorkers - 1) : WF_vars(WorkerStep(t))
    /\ \A t \in 0..(MaxWorkers - 1) : SF_vars(EncodeSceneReturns(t))
    /\ WF_vars(AggregatorStep)

SpecRange == InitRange /\ [][NextRange]_vars

SpecSearch == InitSearch /\ [][NextSearch]_vars

SpecReduce == InitReduce /\ [][NextReduce]_vars

SpecSplit == InitSplit /\ [][NextSplit]_vars

SpecMetrics == InitMetrics /\ [][NextMetrics]_vars

SpecScore == InitScore /\ [][NextScore]_vars

(***************************************************************************)
(* Claims about Encoder::encode, checked under Spec.                       *)
(***************************************************************************)
SceneIndices == 0..(Len(scenes) - 1)

ClipsOf(cs, i) == {k \in 1..Len(cs) : cs[k].scene = i}

\* C1: with workers >= 1 no scene is ever popped twice; once every worker has
\* left its loop without an error every scene has been popped exactly once; and
\* when encode() has returned successfully the clip list holds exactly one
\* ClipMetrics for every scene.
C1_EachSceneOnce ==
    workers >= 1 =>
        /\ \A i \in SceneIndices : pops[i] <= 1
        /\ (\A t \in Threads : thread[t].pc = "finished_ok") =>
              \A i \in SceneIndices : pops[i] = 1
        /\ encode_result = "ok" =>
              /\ \A i \in SceneIndices : pops[i] = 1
              /\ Len(clips) = Len(scenes)
              /\ \A i \in SceneIndices : Cardinality(ClipsOf(clips, i)) = 1

\* encode() returned successfully after two workers each took one of two scenes
C1_Witness ==
    /\ encode_result = "ok"
    /\ workers = 2
    /\ Len(scenes) = 2
    /\ \A t \in Threads : thread[t].scene # NoScene
    /\ Len(clips) = 2

\* C2: with workers >= 1, when encode() has returned successfully, EncodeStatistics.qualities
\* holds exactly one sample per scene and no quality is left in the queue.
C2_OneQualityPerScene ==
    (workers >= 1 /\ encode_result = "ok") =>
        /\ Len(qualities) = Len(scenes)
        /\ quality_queue = <<>>

\* C10: every list of file arguments handed to mkvmerge is in ascending scene
\* index order, its first path bare and every later path prefixed by "+".
C10_MuxerOrder ==
    \A k \in 1..Len(muxer_args) :
        LET args == muxer_args[k]
        IN  \A i \in 1..Len(args) :
                /\ args[i].plus = (i > 1)
                /\ i > 1 => args[i - 1].path.scene < args[i].path.scene

\* mkvmerge was handed the clips of two workers, which the aggregator had
\* received in an order other than ascending scene index
C10_Witness ==
    /\ Len(muxer_args) = 1
    /\ Len(muxer_args[1]) = 2
    /\ workers = 2
    /\ \E i \in 1..(Len(arrival) - 1) : arrival[i].scene > arrival[i + 1].scene

(***************************************************************************)
(* Claims about QualityRange, checked under SpecRange.                     *)
(***************************************************************************)
\* W(Q) = max(0, max - min + 1)
Width(r) == IF r.maximum - r.minimum + 1 > 0 THEN r.maximum - r.minimum + 1 ELSE 0

RECURSIVE CeilLog2(_)
\* the least k with 2^k >= n, for n >= 1
CeilLog2(n) == IF n <= 1 THEN 0 ELSE 1 + CeilLog2((n + 1) \div 2)

\* C3: whenever the stored minimum is at most the stored maximum the midpoint
\* lies in [minimum, maximum]; and a lower() or higher() called after current()
\* returned a value leaves a strictly smaller width W.
C3_MidpointAndShrink ==
    /\ qr.minimum <= qr.maximum =>
          /\ qr.minimum <= midpoint(qr)
          /\ midpoint(qr) <= qr.maximum
    /\ (qr_pc = "current" /\ qr_calls > 0) => Width(qr) < Width(qr_before)

\* lower() has just been called on a range whose stored endpoints are negative
C3_Witness ==
    /\ qr_pc = "current"
    /\ qr_before # qr
    /\ qr_before.maximum < 0
    /\ qr_before.minimum < qr_before.maximum
    /\ qr.maximum < qr_before.maximum

\* C4: from an initial width N >= 1 the number of current() calls that return
\* a value never exceeds ceil(log2(N+1)) + 1, and when current() returns None
\* it is at least ceil(log2(N+1)) - 1: the loop ends within that many probes.
C4_ProbeCount ==
    Width(qr_initial) >= 1 =>
        /\ qr_calls <= CeilLog2(Width(qr_initial) + 1) + 1
        /\ qr_pc = "exhausted" => qr_calls >= CeilLog2(Width(qr_initial) + 1) - 1

\* the search over the 300 steps of the bitrate axis ended after 8 probes,
\* one fewer than ceil(log2(301)) = 9
C4_Witness ==
    /\ qr_pc = "exhausted"
    /\ Width(qr_initial) = 300
    /\ qr_calls = 8

(***************************************************************************)
(* Claims about encode_scene, encode_scene_single and merge_scenes,        *)
(* checked under SpecSearch.                                               *)
(***************************************************************************)
\* the (quality, value) pairs probed so far by the search of this run
Probes == {run.probed[i] : i \in 1..Len(run.probed)}

\* encode_scene has returned from a metric-guided search
SearchReturned == es.pc = "returned" /\ config.metric # "direct"

\* the reduced metric of the clip at quality q is known and is at most /
\* at least config.quality
MetricAtMost(q) ==
    /\ sidecar[QualityName(config, q)].value # NoValue
    /\ AtMost(sidecar[QualityName(config, q)].value, config.quality)
MetricAtLeast(q) ==
    /\ sidecar[QualityName(config, q)].value # NoValue
    /\ AtLeast(sidecar[QualityName(config, q)].value, config.quality)

\* C5 as stated: for rule=Maximum with mode CRF or QP the returned quality q*
\* has metric(q*) <= target, and no explored quality above q* has
\* metric <= target.
C5_NoPassingProbeAbove ==
    (SearchReturned /\ config.rule = "maximum" /\ config.mode \in {"crf", "qp"}) =>
        /\ MetricAtMost(es.quality)
        /\ \A p \in Probes : ValueLess(es.quality, p.q) => ~AtMost(p.v, config.quality)

\* C5 amended: for rule=Maximum with mode CRF or QP, if some explored quality
\* has metric <= target then the returned quality q* is an explored quality
\* with metric(q*) <= target and no explored quality below q* has
\* metric <= target; if none has, q* is the maximum of the range.
C5_SmallestPassingProbe ==
    (SearchReturned /\ config.rule = "maximum" /\ config.mode \in {"crf", "qp"}) =>
        IF \E p \in Probes : AtMost(p.v, config.quality)
        THEN /\ \E p \in Probes : p.q = es.quality
             /\ MetricAtMost(es.quality)
             /\ \A p \in Probes : ValueLess(p.q, es.quality) => ~AtMost(p.v, config.quality)
        ELSE es.quality = maximum(BoundedRange(config))

\* a CRF search under rule=Maximum has returned q* after two probes that
\* both passed, the first of them above q*
C5_Witness ==
    /\ SearchReturned
    /\ config.rule = "maximum"
    /\ config.mode = "crf"
    /\ Len(run.probed) = 2
    /\ \A p \in Probes : AtMost(p.v, config.quality)
    /\ ValueLess(es.quality, run.probed[1].q)
    /\ es.quality = run.probed[2].q

\* C6 as stated: for rule=Minimum with mode CRF the stored quality has
\* reduced metric >= target, and no probe at a CRF value below the stored
\* value passed the predicate metric >= target.
C6_NoPassingProbeBelow ==
    (SearchReturned /\ config.rule = "minimum" /\ config.mode = "crf") =>
        /\ MetricAtLeast(es.quality)
        /\ \A p \in Probes : ValueLess(p.q, es.quality) => ~AtLeast(p.v, config.quality)

\* C6 amended: for rule=Minimum with mode CRF, if some probe passed the
\* predicate metric >= target then the stored quality is a probed quality with
\* reduced metric >= target and no probe at a CRF value above the stored value
\* passed; if none passed, the stored quality is the minimum of the range.
C6_LargestPassingProbe ==
    (SearchReturned /\ config.rule = "minimum" /\ config.mode = "crf") =>
        IF \E p \in Probes : AtLeast(p.v, config.quality)
        THEN /\ \E p \in Probes : p.q = es.quality
             /\ MetricAtLeast(es.quality)
             /\ \A p \in Probes : ValueLess(es.quality, p.q) => ~AtLeast(p.v, config.quality)
        ELSE es.quality = minimum(BoundedRange(config))

\* a CRF search under rule=Minimum over fractional qualities has stored the
\* second of two passing probes, the first of them below the stored value
C6_Witness ==
    /\ SearchReturned
    /\ config.rule = "minimum"
    /\ config.mode = "crf"
    /\ ~integer(es.quality_range)
    /\ Len(run.probed) = 2
    /\ \A p \in Probes : AtLeast(p.v, config.quality)
    /\ ValueLess(run.probed[1].q, es.quality)
    /\ es.quality = run.probed[2].q

\* C7 as stated: for mode=Bitrate, metric=Bitrate, rule=Maximum the encode at
\* the returned quality has reduced per-frame bitrate <= target, whatever the
\* per-quality bitrate values are.
C7_BitrateAtMostTarget ==
    (SearchReturned /\ config.mode = "bitrate" /\ config.metric = "bitrate"
        /\ config.rule = "maximum") =>
        MetricAtMost(es.quality)

\* C7 amended: for mode=Bitrate, metric=Bitrate, rule=Maximum, if some probed
\* bitrate has reduced per-frame bitrate <= target then so has the encode at
\* the returned quality, which is the largest such probe; if none has, the
\* minimum of the range is returned, whose encode is above the target.
C7_LargestPassingBitrate ==
    (SearchReturned /\ config.mode = "bitrate" /\ config.metric = "bitrate"
        /\ config.rule = "maximum") =>
        IF \E p \in Probes : AtMost(p.v, config.quality)
        THEN /\ MetricAtMost(es.quality)
             /\ \A p \in Probes : ValueLess(es.quality, p.q) => ~AtMost(p.v, config.quality)
        ELSE /\ es.quality = minimum(BoundedRange(config))
             /\ ~MetricAtMost(es.quality)

\* a bitrate search under rule=Maximum has returned a bitrate above the range
\* minimum whose encode is within the target, after a probe that was not
C7_Witness ==
    /\ SearchReturned
    /\ config.mode = "bitrate"
    /\ config.metric = "bitrate"
    /\ config.rule = "maximum"
    /\ MetricAtMost(es.quality)
    /\ ValueLess(minimum(BoundedRange(config)), es.quality)
    /\ \E p \in Probes : ~AtMost(p.v, config.quality)

\* C8: a call of encode_scene_single that finds the final file of its
\* (scene, quality) at entry spawns no subprocess and leaves the file as it
\* was; and a run that follows a completed run spawns no encoder at all,
\* in the probes of the search or in the final encode.
C8_ExistingClipNotEncoded ==
    /\ (ess.pc # "idle" /\ ess.existed) =>
          /\ ess.spawns = 0
          /\ ess.pc \in {"entry", "cleanup", "ok"}
          /\ clip_file[QualityName(config, ess.qp)] = ess.before
    /\ run.after_ok => run.spawned = <<>>

\* a second run after a completed run has itself completed, having repeated
\* a search of two probes of a two-pass encode
C8_Witness ==
    /\ run.number = 2
    /\ run.after_ok
    /\ run.pc = "ok"
    /\ passes(config) = 2
    /\ Len(run.probed) = 2
    /\ run.spawned = <<>>

\* C9: merge_scenes runs mkvmerge if and only if the final output does not
\* exist at entry, and leaves an existing final output as it was; a run that
\* follows a completed run whose final output was deleted spawns no encoder,
\* runs mkvmerge once and, if it succeeds, ends with the final output present.
C9_MuxerIffOutputMissing ==
    /\ run.pc \in {"muxing", "publish", "ok"} =>
          /\ run.muxed = (IF run.merged_before = 0 THEN 1 ELSE 0)
          /\ run.merged_before # 0 => merged_file = run.merged_before
    /\ (run.after_ok /\ run.deleted /\ run.pc \in {"muxing", "publish", "ok"}) =>
          /\ run.spawned = <<>>
          /\ run.muxed = 1
          /\ run.pc = "ok" => merged_file = run.number

\* the final output was deleted after a completed run, and the next run has
\* written it again
C9_Witness ==
    /\ run.after_ok
    /\ run.deleted
    /\ run.pc = "ok"
    /\ run.muxed = 1
    /\ merged_file = run.number

\* C11: for a two-pass configuration a file at the final path of a
\* (scene, quality) is the output of the last pass, which exited with status
\* zero; and a call that returns on finding the final file at entry has found
\* the output of the last pass, never that of the first.
C11_FinalIsLastPass ==
    passes(config) = 2 =>
        /\ \A n \in Names(config) : clip_file[n] # NoFile => clip_file[n].pass = 2
        /\ (ess.pc = "ok" /\ ess.existed) => ess.before.pass = 2

\* C16: with workers = 0 the pool still has worker threads, and when encode()
\* goes on to merging every scene of the work queue has been popped and has
\* its clip.
C16_DefaultPoolEncodesAll ==
    (workers = 0 /\ apc \in {"merge", "done"}) =>
        /\ \A i \in SceneIndices : pops[i] >= 1
        /\ Len(clips) = Len(scenes)

\* C19: once the encoding of a scene has failed in a worker, encode() does not
\* return success, mkvmerge is not invoked and the final output is not
\* created; and encode() returns its error only when every worker has finished.
C19_FailureIsReturned ==
    /\ (\E t \in Threads : thread[t].pc = "finished_err") =>
          /\ encode_result # "ok"
          /\ apc # "merge"
          /\ muxer_args = <<>>
          /\ ~output_exists
    /\ encode_result = "err" => \A t \in Threads : is_finished(t)

\* encode() has returned an error: one of two workers failed on its scene
\* while the other encoded a scene and left its loop normally
C19_Witness ==
    /\ workers = 2
    /\ encode_result = "err"
    /\ \E t \in Threads : thread[t].pc = "finished_err" /\ thread[t].scene # NoScene
    /\ \E t \in Threads : thread[t].pc = "finished_ok" /\ thread[t].scene # NoScene
    /\ clips # <<>>

\* C18 as stated: the range Encoder::quality_range builds for x265 with crf
\* has the stored endpoints -40 and 204 and the divisor 4 (-10..51 in steps
\* of 0.25).
C18_X265CrfFromMinusTen ==
    qr_initial = quality_range("x265", "crf") =>
        /\ qr_initial.minimum = -40
        /\ qr_initial.maximum = 204
        /\ qr_initial.divisor = 4

\* C18 amended: the range Encoder::quality_range builds for x265 with crf has
\* the stored endpoints 0 and 204 and the divisor 4 (0..51 in steps of 0.25),
\* and every quality the bisection over it yields is a multiple of 0.25
\* between 0 and 51.
C18_X265CrfFromZero ==
    qr_initial = quality_range("x265", "crf") =>
        /\ qr_initial = [minimum |-> 0, maximum |-> 204, divisor |-> 4, bitrate |-> FALSE]
        /\ ~integer(qr_initial)
        /\ ValueEq(minimum(qr_initial), [num |-> 0, den |-> 1])
        /\ ValueEq(maximum(qr_initial), [num |-> 51, den |-> 1])
        /\ qr_pc = "probe" =>
              /\ current(qr).den = 4
              /\ ~ValueLess(current(qr), [num |-> 0, den |-> 1])
              /\ ~ValueLess([num |-> 51, den |-> 1], current(qr))

\* the bisection over the x265 crf range probes its lowest quality, 0
C18_Witness ==
    /\ qr_initial = quality_range("x265", "crf")
    /\ qr_pc = "probe"
    /\ current(qr) = [num |-> 0, den |-> 4]

(***************************************************************************)
(* Claims about the reduction of the samples, checked under SpecReduce.    *)
(***************************************************************************)
\* C17: the samples of a probe are reduced to their mean when use_mean is
\* set and to the configured percentile when it is not.
C17_MeanWhenUseMean ==
    reduce_pc = "done" =>
        IF use_mean
        THEN ValueEq(metric_value, Mean(metric_values))
        ELSE ValueEq(metric_value, Quantile(metric_values, percentile))

(***************************************************************************)
(* Claims about main, the caches and scenes::split, checked under          *)
(* SpecSplit.                                                               *)
(***************************************************************************)
\* C15: with encoder rav1e and mode crf the program fails before run() is
\* entered: in every run it is in main or has returned from it, no directory
\* was created, neither cache exists or was read, no subprocess was spawned
C15_RejectedBeforeRun ==
    (cli.encoder = "rav1e" /\ cli.mode = "crf") =>
        /\ main_pc \in {"main", "rejected", "killed"}
        /\ dirs = {}
        /\ metadata_json = "absent"
        /\ scenes_json = "absent"
        /\ ~split_hist.spawned
        /\ ~split_hist.cache_read

C15_Witness ==
    /\ cli.encoder = "rav1e"
    /\ cli.mode = "crf"
    /\ main_pc = "rejected"
    /\ split_hist.run = MaxRuns

\* C20: the catalog of scenes::get has the indices 0..n-1, starts at frame 0,
\* is contiguous, ends at frame_count - 1, and no scene ends before it starts
C20_CatalogWellFormed ==
    scene_list # <<>> =>
        /\ \A j \in 1..Len(scene_list) : scene_list[j].index = j - 1
        /\ scene_list[1].start_frame = 0
        /\ \A j \in 1..(Len(scene_list) - 1) :
              scene_list[j + 1].start_frame = scene_list[j].end_frame + 1
        /\ scene_list[Len(scene_list)].end_frame = source.frame_count - 1
        /\ \A j \in 1..Len(scene_list) :
              scene_list[j].end_frame >= scene_list[j].start_frame

\* C12: a file under the final name of the metadata cache or of the scene
\* cache is a complete serialization at every point, and no run reads a
\* partially written cache
C12_CachesAtomic ==
    /\ metadata_json # "partial"
    /\ scenes_json # "partial"
    /\ ~split_hist.partial_read

\* C13: a scene file is renamed to its final name only after the encoder
\* subprocess of the scene has exited successfully, never while it is running
\* or after it failed
C13_RenameAfterSuccess ==
    \A k \in Slots : split_hist.renamed[k] \notin {"running", "failed"}

\* C14: when scenes::split has returned success, the final file of every
\* scene of the catalog exists
C14_SplitSuccessAllFiles ==
    main_pc = "exit_ok" =>
        \A j \in 1..Len(scene_list) : source_final[scene_list[j].index] # "absent"

(***************************************************************************)
(* Claims about encode_scene_single and its files, checked under           *)
(* SpecSearch.                                                              *)
(***************************************************************************)
\* C21: whenever encode_scene_single returns success, the final output file
\* of the scene at the requested quality exists
C21_SuccessMeansFinalExists ==
    ess.pc = "ok" => clip_file[QualityName(config, ess.qp)] # NoFile

C23_NonzeroExitIsError ==
    [][/\ (ess.pc = "publish" /\ ~ess.success) =>
             (ess'.pc = "err" /\ UNCHANGED <<clip_file, run>>)
       /\ ess.pc = "err" =>
             /\ es'.pc = "err"
             /\ run' = [run EXCEPT !.pc = "err"]
             /\ UNCHANGED clip_file
       /\ (run.pc = "err" /\ run'.number = run.number) =>
             UNCHANGED <<run, es, ess, clip_file, sidecar, merged_file>>]_vars

\* the first pass of a two-pass encode has failed after writing its output
C23_Witness ==
    /\ ess.pc = "err"
    /\ passes(config) = 2
    /\ ess.passes = 1
    /\ clip_tmp[QualityName(config, ess.qp)] # NoFile
    /\ clip_file[QualityName(config, ess.qp)] = NoFile

\* C24: in a two-pass encode of a missing clip the pass-2 encoder is spawned
\* right after the pass-1 encoder of the same clip has exited successfully,
\* with the stats file that pass 1 wrote still there, and no stats file is
\* left when the outermost call has returned successfully
C24_PassesShareStats ==
    /\ (passes(config) = 2 /\ ess.passes = 2 /\ ~ess.existed
            /\ ess.pc \in {"spawn", "wait", "publish"}) =>
          LET name == QualityName(config, ess.qp)
              first == Len(run.spawned) - (IF ess.pc = "spawn" THEN 0 ELSE 1)
          IN  /\ first >= 1
              /\ run.spawned[first] = [name |-> name, pass |-> 1]
              /\ ess.pc # "spawn" => run.spawned[first + 1] = [name |-> name, pass |-> 2]
              /\ ess.pc = "spawn" => ess.success
              /\ stats_file[name]
    /\ ess.pc = "ok" => ~stats_file[QualityName(config, ess.qp)]

\* both passes of a missing clip were encoded and the call has returned
C24_Witness ==
    /\ passes(config) = 2
    /\ ess.pc = "ok"
    /\ ~ess.existed
    /\ ess.spawns = 2
    /\ ~stats_file[QualityName(config, ess.qp)]

(***************************************************************************)
(* Claims about the work queue and the metric threads of Encoder::encode,  *)
(* checked under Spec.                                                      *)
(***************************************************************************)
\* C25: scenes leave the work queue in non-increasing order of length: a
\* scene that was popped is at least as long as every scene still queued,
\* whichever workers popped
C25_LongestFirst ==
    \A j \in 1..Len(scenes), q \in 1..Len(scene_queue) :
        pops[scenes[j].index] >= 1 => length(scenes[j]) >= length(scene_queue[q])

\* two scenes of different lengths have been popped by two workers
C25_Witness ==
    /\ workers = 2
    /\ Len(scenes) = 2
    /\ length(scenes[1]) # length(scenes[2])
    /\ scene_queue = <<>>
    /\ thread[0].scene # NoScene
    /\ thread[1].scene # NoScene
    /\ thread[0].scene # thread[1].scene

\* C26: the thread count of a metric probe is workers divided, rounding
\* down, by the number of workers that have not finished; the only worker
\* still running gets threads = workers
C26_ThreadsByLiveWorkers ==
    [][\A t \in Threads :
          (thread[t].pc = "encode" /\ thread'[t].pc = "metric") =>
              thread'[t].threads =
                  workers \div Cardinality({u \in Threads : ~is_finished(u)})]_vars

(***************************************************************************)
(* Claims about the rule table of encode_scene, checked under SpecSearch.  *)
(***************************************************************************)
\* q is the quality of the earliest probe of this search whose reduced metric
\* is nearest to config.quality
ClosestProbe(q) ==
    \E i \in 1..Len(run.probed) :
        /\ run.probed[i].q = q
        /\ \A j \in 1..Len(run.probed) :
              /\ Delta(config.quality, run.probed[j].v) >= Delta(config.quality, run.probed[i].v)
              /\ j < i => Delta(config.quality, run.probed[j].v) >
                              Delta(config.quality, run.probed[i].v)

\* C27: for rule=Target in any mode, from the first probe on the best quality
\* is the earliest probed quality whose metric is nearest to the target, and
\* it is the quality encode_scene returns
C27_TargetReturnsClosest ==
    (config.rule = "target" /\ config.metric # "direct") =>
        /\ (es.pc = "loop" /\ Len(run.probed) >= 1) => ClosestProbe(es.best_quality)
        /\ es.pc = "returned" =>
              (Len(run.probed) >= 1 /\ ClosestProbe(es.quality))

\* a Target search has returned the earlier of two probes whose metrics
\* differ and are equally near to the target
C27_Witness ==
    /\ SearchReturned
    /\ config.rule = "target"
    /\ \E i, j \in 1..Len(run.probed) :
          /\ i < j
          /\ run.probed[i].q = es.quality
          /\ run.probed[i].v # run.probed[j].v
          /\ Delta(config.quality, run.probed[i].v) = Delta(config.quality, run.probed[j].v)

\* C28: for the rules Maximum and Minimum, when no probed quality satisfies
\* the predicate of the rule (metric <= target for Maximum, metric >= target
\* for Minimum), encode_scene returns the seed: the minimum of the range for
\* (bitrate, Maximum) and (CRF/QP, Minimum), the maximum of the range for
\* (bitrate, Minimum) and (CRF/QP, Maximum)
C28_SeedWhenNoProbePasses ==
    (/\ SearchReturned
     /\ config.rule \in {"maximum", "minimum"}
     /\ \A p \in Probes :
           IF config.rule = "maximum" THEN ~AtMost(p.v, config.quality)
                                      ELSE ~AtLeast(p.v, config.quality)) =>
        es.quality =
            IF (config.mode = "bitrate") = (config.rule = "maximum")
            THEN minimum(BoundedRange(config))
            ELSE maximum(BoundedRange(config))

\* a search of two or more probes that all failed the predicate has returned
\* the seed, the maximum of its range
C28_Witness ==
    /\ SearchReturned
    /\ config.rule \in {"maximum", "minimum"}
    /\ Len(run.probed) >= 2
    /\ \A p \in Probes :
          IF config.rule = "maximum" THEN ~AtMost(p.v, config.quality)
                                     ELSE ~AtLeast(p.v, config.quality)
    /\ es.quality = maximum(BoundedRange(config))

(***************************************************************************)
(* Claims about the use of the caches, checked under SpecSplit.            *)
(***************************************************************************)
\* a call of get_metadata or scenes::get that finds its cache file leaves the
\* file as it is, runs no packet probe and spawns no subprocess, and from a
\* complete cache returns the cached value
CacheHitFrame ==
    /\ (main_pc = "metadata" /\ metadata_json # "absent") =>
          /\ metadata_json' = metadata_json
          /\ split_hist'.probes = split_hist.probes
          /\ split_hist'.spawned = split_hist.spawned
          /\ (metadata_json = "complete" /\ main_pc' \notin {"metadata", "killed"}) =>
                (memo' /\ main_pc' \in {"split", "get_scenes"})
    /\ (main_pc = "get_scenes" /\ scenes_json # "absent") =>
          /\ scenes_json' = scenes_json
          /\ split_hist'.probes = split_hist.probes
          /\ split_hist'.spawned = split_hist.spawned
          /\ (scenes_json = "complete" /\ main_pc' \notin {"get_scenes", "killed"}) =>
                /\ main_pc' = "split_check"
                /\ scene_list' = Scenes(source.scene_changes, source.frame_count)

\* C29 as stated: a call that finds its cache file returns the cached value
\* without a probe, a subprocess or a write, and within one process the
\* metadata probe runs at most once
C29_ProbeAtMostOnce ==
    [][CacheHitFrame]_vars /\ [](main_pc # "idle" => split_hist.probes <= 1)

\* C29 amended: a call that finds its cache file returns the cached value
\* without a probe, a subprocess or a write, and within one process no
\* metadata probe runs once get_metadata has returned success
C29_NoProbeAfterSuccess ==
    [][/\ CacheHitFrame
       /\ (memo /\ memo') => split_hist'.probes = split_hist.probes]_vars

\* a second process has taken the metadata and the catalog from the caches of
\* the first, without a probe
C29_Witness ==
    /\ split_hist.run = 2
    /\ main_pc = "split_check"
    /\ memo
    /\ scene_list # <<>>
    /\ split_hist.probes = 0
    /\ metadata_json = "complete"
    /\ scenes_json = "complete"


C31_SequentialSplit ==
    [][/\ (main_pc \in {"split_scene", "split_feed"} /\ main_pc' = "split_publish") =>
              /\ SplitScene.index = split.i - 1
              /\ split.decoded = SplitScene.start_frame
              /\ split'.decoded = split.decoded + length(SplitScene)
       /\ (main_pc = "split_check" /\ Complete /\ main_pc' # "killed") =>
              UNCHANGED <<ffmpeg, split_hist>>]_vars

\* C32: when the catalog needs more frames than the decoder yields, a run of
\* scenes::split that starts the decoder never returns success, and the scene
\* it was writing when the frames ran out is not renamed to its final name
C32_ShortSourceIsError ==
    source.frame_count > source.frames =>
        /\ main_pc # "exit_ok"
        /\ \A j \in 1..Len(scene_list) :
              (/\ main_pc = "exit_err"
               /\ split.i = j
               /\ ffmpeg[scene_list[j].index].status # "none"
               /\ FramesRunOut(scene_list[j])) =>
                  /\ source_final[scene_list[j].index] = "absent"
                  /\ split_hist.renamed[scene_list[j].index] = "none"

\* the frames ran out in the second scene, after the first was renamed, while
\* the temporary file of the second scene was there to be renamed
C32_Witness ==
    /\ source.frame_count > source.frames
    /\ main_pc = "exit_err"
    /\ split.i = 2
    /\ FramesRunOut(scene_list[2])
    /\ ffmpeg[1].status = "ok"
    /\ source_tmp[1] = "complete"
    /\ source_final[1] = "absent"
    /\ source_final[0] # "absent"

(***************************************************************************)
(* Claims about failing workers and the queues of Encoder::encode, checked *)
(* under Spec.                                                             *)
(***************************************************************************)
\* the scenes a worker gave up on
FailedScenes == {thread[t].scene : t \in {u \in Threads : WorkerFailed(u)}}

\* C33: when encode() returns an error in a run of at least two workers of
\* which at most one has failed, every scene other than the one that worker
\* failed on has been popped once and encoded to the end by a worker
C33_NoCancellation ==
    (/\ encode_result = "err"
     /\ workers >= 2
     /\ Cardinality({t \in Threads : WorkerFailed(t)}) <= 1) =>
        \A j \in 1..Len(scenes) :
            scenes[j].index \notin FailedScenes =>
                /\ pops[scenes[j].index] = 1
                /\ \A t \in Threads : is_finished(t)

\* a worker failed on the first scene of the queue, and the clip of the other
\* scene reached the aggregator before encode() returned the error
C33_Witness ==
    /\ encode_result = "err"
    /\ workers = 2
    /\ Len(scenes) = 2
    /\ FailedScenes = {scenes[1].index}
    /\ Len(arrival) = 1
    /\ arrival[1].scene = scenes[2].index

(***************************************************************************)
(* Claims about the result of the search of encode_scene, checked under    *)
(* SpecSearch.                                                             *)
(***************************************************************************)
\* the probes of the search agree with a metric that does not increase with
\* the quality value
MonotoneProbes ==
    \A a, b \in 1..Len(run.probed) :
        ValueLess(run.probed[a].q, run.probed[b].q) => run.probed[a].v >= run.probed[b].v

\* the grid qualities the search has seen to reach the target, and to miss it
ProbedAtLeast ==
    {q \in Grid(BoundedRange(config)) :
        \E a \in 1..Len(run.probed) :
            run.probed[a].q = q /\ run.probed[a].v * config.quality.den >= config.quality.num}
ProbedBelow ==
    {q \in Grid(BoundedRange(config)) :
        \E a \in 1..Len(run.probed) :
            run.probed[a].q = q /\ run.probed[a].v * config.quality.den < config.quality.num}

SearchOver == es.pc \in {"final", "finishing", "returned"}

\* C34: with rule Minimum in CRF or QP mode and probes that agree with a
\* metric not increasing in the quality value, the quality encode_scene
\* settles on is what a scan of the whole grid gives under every such metric:
\* it was seen to reach the target or is the minimum of the range, and every
\* grid quality above it lies at or above a probe that missed the target
C34_MinimumMatchesScan ==
    (/\ SearchOver
     /\ config.metric # "direct"
     /\ config.rule = "minimum"
     /\ config.mode # "bitrate"
     /\ MonotoneProbes) =>
        /\ es.quality \in ProbedAtLeast \/ es.quality = minimum(BoundedRange(config))
        /\ ProbedAtLeast # {} => es.quality \in ProbedAtLeast
        /\ \A q \in Grid(BoundedRange(config)) :
              ValueLess(es.quality, q) =>
                  \E f \in ProbedBelow : ~ValueLess(q, f)

\* the search settled on the middle of a grid of three: it reached the target
\* there and missed it at the quality above
C34_Witness ==
    /\ SearchOver
    /\ config.metric # "direct"
    /\ config.rule = "minimum"
    /\ config.mode # "bitrate"
    /\ MonotoneProbes
    /\ es.quality \in ProbedAtLeast
    /\ es.quality # minimum(BoundedRange(config))
    /\ es.quality # maximum(BoundedRange(config))
    /\ maximum(BoundedRange(config)) \in ProbedBelow

\* C35: in a metric-guided search, whatever the rule, the mode and the metric
\* values, the quality the search returns was probed during that search, and
\* the final encode_scene_single call at it finds the clip present and spawns
\* no encoder
C35_BestWasProbed ==
    (config.metric # "direct" /\ es.pc \in {"final", "finishing"}) =>
        /\ \E a \in 1..Len(run.probed) : run.probed[a].q = es.quality
        /\ es.pc = "finishing" =>
              /\ ess.qp = es.quality
              /\ ess.existed
              /\ ess.spawns = 0
              /\ ess.pc # "err"

\* the final call has returned for a search in which no probe satisfied the
\* rule, so that the quality returned is the seed
C35_Witness ==
    /\ config.metric # "direct"
    /\ config.rule = "maximum"
    /\ es.pc = "finishing"
    /\ ess.pc = "ok"
    /\ ess.spawns = 0
    /\ Len(run.probed) >= 2
    /\ es.quality = SeedQuality(config, BoundedRange(config))
    /\ \A a \in 1..Len(run.probed) :
          run.probed[a].v * config.quality.den > config.quality.num

(***************************************************************************)
(* Claims about the thread counts, the termination and the queues of       *)
(* Encoder::encode, checked under Spec.                                    *)
(***************************************************************************)
RECURSIVE SumThreads(_)
\* the threads of the metric probes the workers ts have in flight
SumThreads(ts) ==
    IF ts = {} THEN 0
    ELSE LET t == CHOOSE u \in ts : TRUE
         IN  thread[t].threads + SumThreads(ts \ {t})

\* C36: whenever a worker reads active_workers for its thread count the
\* counter is at least 1 and the count is between 1 and workers, and the
\* thread counts of the metric probes in flight never add up to more than
\* workers
C36_ThreadBudget ==
    /\ [](\A t \in Threads : thread[t].pc = "encode" => active_workers >= 1)
    /\ [][\A t \in Threads :
             (thread[t].pc = "encode" /\ thread'[t].pc = "metric") =>
                 thread'[t].threads \in 1..workers]_vars
    /\ [](workers >= 1 =>
            SumThreads({t \in Threads : thread[t].pc = "metric"}) <= workers)

\* both workers of a run have a metric probe in flight, with one thread each
C36_Witness ==
    /\ workers = 2
    /\ \A t \in Threads : thread[t].pc = "metric" /\ thread[t].threads = 1

\* C37: when every subprocess and metric computation returns, encode()
\* returns under every interleaving, with every worker finished, whether the
\* workers succeed or fail; and once every worker has finished and the result
\* queue is empty the aggregator leaves its loop
C37_EncodeTerminates ==
    /\ <>(encode_result # "running" /\ \A t \in Threads : is_finished(t))
    /\ ((\A t \in Threads : is_finished(t)) /\ result_queue = <<>>)
           ~> (apc \in {"join", "abort", "merge", "done"})

\* encode() has returned the error of a failed worker after the other worker
\* left its loop on the empty queue
C37_Witness ==
    /\ encode_result = "err"
    /\ apc = "done"
    /\ workers = 2
    /\ \E t \in Threads : thread[t].pc = "finished_err"
    /\ \E t \in Threads : thread[t].pc = "finished_ok"
    /\ scene_queue = <<>>

(***************************************************************************)
(* The scoring threads of the SSIMULACRA2 routine                          *)
(***************************************************************************)
\* the scoring threads that hold the guard of the mutex
InCriticalSection == {t \in Scorers : scorer[t].pc \in {"index", "reference", "distorted"}}

\* C38: with one or more scoring threads, under every interleaving, at most
\* one thread reads frames at a time, the a-th pair read is the a-th frame
\* of each clip and is given the frame index a - 1, and the vector
\* compare_videos returns holds, in frame-index order, exactly one score for
\* every frame index that was given out
C38_ScoresInFrameOrder ==
    ss_threads >= 1 =>
        /\ Cardinality(InCriticalSection) <= 1
        /\ \A a \in 1..Len(score_hist) :
              /\ score_hist[a].frame_index = a - 1
              /\ score_hist[a].reference_frame = a - 1
              /\ score_hist[a].distorted_frame = a - 1
        /\ ss_main.pc = "ok" =>
              ss_main.scores = [a \in 1..Len(score_hist) |-> ScoreOf(a - 1, a - 1)]

(***************************************************************************)
(* The internal errors of Encoder::encode                                  *)
(***************************************************************************)
\* C39: the scenes pushed at the start fit the work queue; a worker about to
\* push a result, or a quality, finds room in the queue; and the result
\* queue is empty when the main thread has left the aggregator loop for the
\* join loop and the check that follows it
C39_InternalErrorsUnreachable ==
    /\ Len(scene_queue) <= Capacity
    /\ \A t \in Threads : thread[t].pc = "encode" => Len(result_queue) < Capacity
    /\ \A t \in Threads : thread[t].pc = "push_quality" => Len(quality_queue) < Capacity
    /\ apc = "join" => result_queue = <<>>

\* both workers have pushed their result and their quality before the
\* aggregator popped any: both queues are full
C39_Witness ==
    /\ Len(scenes) = 2
    /\ Len(result_queue) = Capacity
    /\ Len(quality_queue) = Capacity
    /\ \A t \in Threads : thread[t].pc = "pop"
====
